---- MODULE Spec2Model ----
(***************************************************************************)
(* Verification model of silibox's state store (package state):            *)
(* the JSON state file with its flock-protected sessions                   *)
(* (WithLockedState / Load / SaveAtomic) and the in-memory domain          *)
(* operations on the State document (environments, port registry); of the  *)
(* idle policy and the autosleep agent built on it (package agent); and of *)
(* the auto-wake check EnsureVMRunning (package vm).                       *)
(***************************************************************************)
EXTENDS Integers, Sequences, FiniteSets, TLC

(* ------------------------------------------------------------------ *)
(* Bounds of the model                                                  *)
(* ------------------------------------------------------------------ *)
MaxFaults == 1      \* I/O errors the operating system may inject
MaxClock == 1       \* time.Now().Unix() ranges over 0..MaxClock
MaxOps == 3         \* domain operations applied in a row to one State

(* ------------------------------------------------------------------ *)
(* Program constants                                                    *)
(* ------------------------------------------------------------------ *)
SchemaVersion == 2
FirstEphemeral == 51000
WebPort == 8080

EnvNames == {"web", "api"}
SuggestedPorts == {WebPort, FirstEphemeral, FirstEphemeral + 1}

(* The processes: two invocations that open a locked session (a CLI
   command and the autosleep agent's stop action) and one that calls Load
   without the lock (a status query or the agent's idle evaluation). *)
Sessions == {"cli", "agent"}
Readers == {"status"}

(* The roles next to a running autosleep agent: the agent evaluates with an
   unlocked Load, stops through a locked session, and a user runs one CLI
   command meanwhile. *)
Evaluator == "status"
Stopper == "agent"
User == "cli"

(* The roles of an EnsureVMRunning call: its state.Load() is unlocked, and
   the lima.Up it calls opens a locked session. *)
Waker == "status"
Starter == "agent"

(* The role of an EnsureContainerRunning, Enter or Run call: its
   state.Load() is unlocked; the session EnsureContainerRunning opens
   after a start is the Starter's. *)
Caller == "status"
Procs == Sessions \cup Readers
Times == 0..MaxClock

VARIABLES
    statePath,   \* content of ~/.sili/state.json
    tmpPath,     \* content of ~/.sili/state.json.tmp
    backups,     \* content of ~/.sili/state.json.bak-<t>, per second t
    holders,     \* processes whose flock handle holds ~/.sili/state.lock
    now,         \* time.Now().Unix()
    faults,      \* I/O errors injected so far
    pc,          \* position of each process in WithLockedState / Load
    fn,          \* the callback each session passes to WithLockedState
    st,          \* the *State each process holds in memory
    data,        \* the bytes os.ReadFile returned to each process
    err,         \* the error each call returned ("none" while running)
    startView,   \* history: the document stored when the session got the lock
    fnRan,       \* history: the session's callback was invoked
    serialRenamed,  \* history: callbacks of sessions whose save renamed, in order
    serialReturned, \* history: callbacks of sessions that returned nil, in order
    committed,   \* history: every document the state path has held
    mem,         \* a State value the domain operations are applied to
    last,        \* the last domain operation applied to mem and its result
    nops,        \* number of domain operations applied to mem
    idle,        \* the last idle-policy evaluation of mem and what it returned
    sched,       \* RunAutosleep: position, remaining idleEnvs, cycle, return value
    cfg,         \* the AutosleepConfig RunAutosleep was called with
    ctl,         \* ctx.Done() closed, a signal in sigChan, a tick in ticker.C
    hist,        \* history of the current cycle: the environments evaluated
                 \* idle, those container.Stop was called for, those it
                 \* failed for, the `podman stop` calls per name
    wake,        \* EnsureVMRunning: position, return value, lima.Up calls
    call         \* EnsureContainerRunning, Enter, Run or a doctor check:
                 \* position, name, return values, startContainer calls,
                 \* time of the exec, what Lima and podman reported, the
                 \* environments left in the doctor's loop

fsVars == <<statePath, tmpPath, backups, holders, now, faults, pc, fn, st, data,
            err, startView, fnRan, serialRenamed, serialReturned, committed,
            sched, cfg, ctl, hist, wake>>
memVars == <<mem, last, nops, idle, call>>
schedVars == <<sched, cfg, ctl, hist, wake>>
vars == <<statePath, tmpPath, backups, holders, now, faults, pc, fn, st, data,
          err, startView, fnRan, serialRenamed, serialReturned, committed,
          mem, last, nops, idle, call, sched, cfg, ctl, hist, wake>>

(* ------------------------------------------------------------------ *)
(* The State document                                                   *)
(* ------------------------------------------------------------------ *)
(* the sizing of a VMInfo (CPUs, Memory, Disk) is represented by Memory: the
   default of `sili vm up --memory`, and the value EnsureVMRunning passes *)
UpMemory == "8GiB"

WakeMemory == "4GiB"

NoVM == [present |-> FALSE, status |-> "", lastActive |-> 0, memory |-> ""]

EmptyMap == [n \in {} |-> 0]

NewState ==
    [schema |-> SchemaVersion,
     vm |-> NoVM,
     next |-> FirstEphemeral,
     reserved |-> EmptyMap,
     envs |-> EmptyMap]

MapRemove(m, k) == [x \in DOMAIN m \ {k} |-> m[x]]

MapPut(m, k, v) == [x \in DOMAIN m \cup {k} |-> IF x = k THEN v ELSE m[x]]

SetVM(s, vm) == [s EXCEPT !.vm = vm]

(* a status update that creates the VM record when there is none *)
UpdateVMStatusCreates(s, status) ==
    [s EXCEPT !.vm = [present |-> TRUE, status |-> status, lastActive |-> 0,
                      memory |-> ""]]

UpdateVMStatus(s, status) ==
    IF s.vm.present THEN [s EXCEPT !.vm.status = status] ELSE s

TouchVMActivity(s, t) ==
    IF s.vm.present THEN [s EXCEPT !.vm.lastActive = t] ELSE s

UpsertEnv(s, env) == [s EXCEPT !.envs = MapPut(s.envs, env.name, env)]

(* the record container.Create upserts: running, with the map of migrated
   directories allocated and, when no hot directory was moved, empty *)
CreatedEnv(name, t) ==
    [name |-> name, status |-> "running", persistent |-> FALSE,
     lastActive |-> t, migratedDirs |-> "empty"]

HasEnv(s, name) == name \in DOMAIN s.envs

(* a status update that is dropped *)
UpdateEnvStatusIgnored(s, name, status) == s

UpdateEnvStatus(s, name, status) ==
    IF HasEnv(s, name) THEN [s EXCEPT !.envs[name].status = status] ELSE s

TouchEnvActivity(s, name, t) ==
    IF HasEnv(s, name) THEN [s EXCEPT !.envs[name].lastActive = t] ELSE s

(* a release that gives back one port of the owner per call *)
ReleasePortsOne(s, name) ==
    IF name \in DOMAIN s.reserved /\ Len(s.reserved[name]) > 1
    THEN [s EXCEPT !.reserved[name] = Tail(@)]
    ELSE [s EXCEPT !.reserved = [x \in DOMAIN s.reserved \ {name} |->
                                   s.reserved[x]]]

ReleasePorts(s, name) == [s EXCEPT !.reserved = MapRemove(s.reserved, name)]

RemoveEnv(s, name) ==
    ReleasePorts([s EXCEPT !.envs = MapRemove(s.envs, name)], name)

(* The order in which `range s.Ports.Reserved` visits the owners is not
   specified by Go: every permutation of the keys is a possible order. *)
Orders(S) ==
    {o \in [1..Cardinality(S) -> S] : \A i, j \in DOMAIN o : o[i] = o[j] => i = j}

RECURSIVE FlattenPorts(_, _)
FlattenPorts(order, reserved) ==
    IF order = <<>> THEN <<>>
    ELSE reserved[Head(order)] \o FlattenPorts(Tail(order), reserved)

(* The double loop of ReservePort over the ports visited in order: each
   port equal to the current suggestion replaces the suggestion by the
   cursor and advances the cursor.  Result: <<suggested, NextEphemeral>>. *)
RECURSIVE ScanReserved(_, _, _)
ScanReserved(ports, suggested, next) ==
    IF ports = <<>> THEN <<suggested, next>>
    ELSE IF Head(ports) = suggested
         THEN ScanReserved(Tail(ports), next, next + 1)
         ELSE ScanReserved(Tail(ports), suggested, next)

ReservePortResult(s, suggested, order) ==
    ScanReserved(FlattenPorts(order, s.reserved), suggested, s.next)

(* a reservation that advances the cursor on every call *)
ReservePortAlwaysBumps(s, name, suggested, order) ==
    LET r == ReservePortResult(s, suggested, order)
        old == IF name \in DOMAIN s.reserved THEN s.reserved[name] ELSE <<>>
    IN [s EXCEPT !.next = r[2] + 1,
                 !.reserved = [x \in DOMAIN s.reserved \cup {name} |->
                                 IF x = name THEN Append(old, r[1])
                                 ELSE s.reserved[x]]]

ReservePort(s, name, suggested, order) ==
    LET r == ReservePortResult(s, suggested, order)
        old == IF name \in DOMAIN s.reserved THEN s.reserved[name] ELSE <<>>
    IN [s EXCEPT !.next = r[2],
                 !.reserved = MapPut(s.reserved, name, Append(old, r[1]))]

PortsOf(s, name) ==
    IF name \in DOMAIN s.reserved
    THEN {s.reserved[name][i] : i \in DOMAIN s.reserved[name]}
    ELSE {}

PortTaken(s, port) == \E o \in DOMAIN s.reserved : port \in PortsOf(s, o)

(* container.Remove's callback: podman is the outcome of `podman rm`. *)
PodmanRm == {"ok", "no_such_container", "needs_force", "failed"}

RemoveFn(s, name, podman, t) ==
    IF ~HasEnv(s, name) THEN [st |-> s, err |-> "not_found"]
    ELSE IF podman = "needs_force" THEN [st |-> s, err |-> "running"]
    ELSE IF podman = "failed" THEN [st |-> s, err |-> "podman"]
    ELSE [st |-> TouchVMActivity(RemoveEnv(s, name), t), err |-> "nil"]

(* container.Stop's callback: podman is the outcome of `podman stop`,
   which is run only for an environment found in the State. *)
PodmanStop == {"ok", "no_such_container", "failed"}

(* a Stop that records every environment as stopped *)
StopFnStopsAll(s, name, podman, t) ==
    IF name \notin DOMAIN s.envs THEN [st |-> s, err |-> "not_found"]
    ELSE IF podman = "failed" THEN [st |-> s, err |-> "podman"]
    ELSE [st |-> [s EXCEPT !.envs = [n \in DOMAIN s.envs |->
                                      [s.envs[n] EXCEPT !.status = "stopped"]]],
          err |-> "nil"]

(* a Stop that records the environment as stopped whatever podman said *)
StopFnIgnoresFailure(s, name, podman, t) ==
    IF name \notin DOMAIN s.envs THEN [st |-> s, err |-> "not_found"]
    ELSE [st |-> [s EXCEPT !.envs[name].status = "stopped"], err |-> "nil"]

StopFn(s, name, podman, t) ==
    IF ~HasEnv(s, name) THEN [st |-> s, err |-> "not_found"]
    ELSE IF podman = "failed" THEN [st |-> s, err |-> "podman"]
    ELSE [st |-> TouchVMActivity(UpdateEnvStatus(s, name, "stopped"), t),
          err |-> "nil"]

(* a Create that does not look at the VM record *)
CreateFnAnyVM(s, name, podman, t) ==
    IF podman # "ok" THEN [st |-> s, err |-> "podman"]
    ELSE [st |-> TouchVMActivity(UpsertEnv(s, CreatedEnv(name, t)), t),
          err |-> "nil"]

(* container.Create's callback: refuses without a running VM; podman is the
   outcome of pulling the image and creating the container. *)
CreateFn(s, name, podman, t) ==
    IF ~s.vm.present \/ s.vm.status # "running"
    THEN [st |-> s, err |-> "vm_not_running"]
    ELSE IF podman # "ok" THEN [st |-> s, err |-> "podman"]
    ELSE [st |-> TouchVMActivity(UpsertEnv(s, CreatedEnv(name, t)), t),
          err |-> "nil"]

(* a callback that records the environment as a persistent service *)
PersistFn(s, name, t) ==
    [st |-> UpsertEnv(s, [CreatedEnv(name, t) EXCEPT !.persistent = TRUE]),
     err |-> "nil"]

(* what the callback of lima.Up meets: ensureTemplate, instanceExists or
   `limactl create` fails; `limactl start` fails; waitForRunning fails;
   lima.yaml cannot be read back; or everything succeeds *)
LimaUp == {"ok", "not_created", "start_failed", "not_running", "no_config"}

(* waitForRunning returned nil: Lima reported the instance Running *)
RunningConfirmed(outcome) == outcome \in {"ok", "no_config"}

(* the VMInfo lima.Up stores: the sizing is that of the Config passed *)
UpVM(memory, t) ==
    [present |-> TRUE, status |-> "running", lastActive |-> t,
     memory |-> memory]

(* an Up that records the VM as running whatever Lima answered *)
UpFnUnconfirmed(s, memory, outcome, t) ==
    [st |-> SetVM(s, UpVM(memory, t)), err |-> "nil"]

(* lima.Up's callback: SetVM comes last, after waitForRunning and the read
   of lima.yaml; every failure returns before it *)
UpFn(s, memory, outcome, t) ==
    IF outcome # "ok" THEN [st |-> s, err |-> "lima"]
    ELSE [st |-> SetVM(s, UpVM(memory, t)), err |-> "nil"]

(* what the callback of lima.Stop meets: the instance is stopped, at once
   or after `limactl stop` and the wait; or the query, the stop or the wait
   fails *)
LimaStop == {"ok", "failed"}

(* lima.Stop's callback *)
VMStopFn(s, outcome) ==
    IF outcome = "failed" THEN [st |-> s, err |-> "lima"]
    ELSE [st |-> UpdateVMStatus(s, "stopped"), err |-> "nil"]

(* what lima.GetInstance() reports to the doctor: an error, no instance,
   or the instance's status as Lima prints it *)
LimaLive == {"error", "not_found", "Running", "Stopped", "Broken"}

(* strings.ToLower on the statuses of Lima *)
ToLower(status) ==
    CASE status = "Running" -> "running"
      [] status = "Stopped" -> "stopped"
      [] status = "Broken" -> "broken"
      [] OTHER -> status

(* the callbacks of checkStateConsistency with --fix: "stopped" when Lima
   has no instance, otherwise the lower-cased live status *)
FixVMFn(s, live) ==
    [st |-> UpdateVMStatus(s, IF live = "not_found" THEN "stopped"
                              ELSE ToLower(live)),
     err |-> "nil"]

(* the callbacks of checkContainerDesync with --fix: the environment, if
   still recorded, gets the status podman shows *)
FixEnvFn(s, name, podman) ==
    [st |-> UpdateEnvStatus(s, name, IF podman = "running" THEN "running"
                                     ELSE "stopped"),
     err |-> "nil"]

(* the callback EnsureContainerRunning passes after startContainer
   returned nil *)
EnsureFn(s, name, t) ==
    [st |-> TouchVMActivity(
              TouchEnvActivity(UpdateEnvStatus(s, name, "running"), name, t), t),
     err |-> "nil"]

(* ------------------------------------------------------------------ *)
(* Idle policy (package agent)                                          *)
(* ------------------------------------------------------------------ *)
(* now.Sub(lastActive) *)
IdleDuration(t, lastActive) == t - lastActive

(* an idle test that also returns an environment idle for exactly the
   threshold *)
EnvIsIdleFromThreshold(env, t, threshold) ==
    /\ ~env.persistent
    /\ env.status # "stopped"
    /\ IdleDuration(t, env.lastActive) >= threshold

(* the loop body of GetIdleEnvironments: skip persistent, skip stopped,
   keep what has been idle for longer than the threshold *)
EnvIsIdle(env, t, threshold) ==
    /\ ~env.persistent
    /\ env.status # "stopped"
    /\ IdleDuration(t, env.lastActive) > threshold

(* GetIdleEnvironments applied to the State that Load returned, at time t *)
GetIdleEnvironments(s, t, threshold) ==
    {n \in DOMAIN s.envs : EnvIsIdle(s.envs[n], t, threshold)}

(* an all-stopped test that takes an empty environment list for busy *)
AllStoppedNonEmpty(s) ==
    /\ DOMAIN s.envs # {}
    /\ \A n \in DOMAIN s.envs : s.envs[n].status = "stopped"

(* an all-stopped test that does not look at the environments *)
AllStoppedUnchecked(s) == TRUE

(* the loop of IsVMIdle over ListEnvs: allStopped *)
AllStopped(s) == \A n \in DOMAIN s.envs : s.envs[n].status = "stopped"

(* IsVMIdle applied to the State that Load returned, at time t *)
IsVMIdle(s, t, threshold) ==
    IF ~s.vm.present THEN TRUE
    ELSE IF s.vm.status = "stopped" THEN TRUE
    ELSE IF AllStopped(s) THEN IdleDuration(t, s.vm.lastActive) > threshold
    ELSE FALSE

(* ------------------------------------------------------------------ *)
(* Domain operations applied to one in-memory State                     *)
(* ------------------------------------------------------------------ *)
NoOp == [op |-> "none", name |-> "", suggested |-> 0, ret |-> 0,
         err |-> "nil", prev |-> NewState]

NoEval == [op |-> "none", envs |-> {}, vmIdle |-> FALSE, threshold |-> 0,
           at |-> 0]

(* neither EnsureContainerRunning nor Enter nor Run is called *)
NoCall ==
    [op |-> "none", pc |-> "off", name |-> "", started |-> FALSE,
     ret |-> "none", starts |-> 0, accessed |-> FALSE, at |-> 0,
     live |-> "none", todo |-> <<>>, running |-> {}]

InitMem ==
    mem = NewState /\ last = NoOp /\ nops = 0 /\ idle = NoEval /\ call = NoCall

DoReservePort ==
    /\ nops < MaxOps
    /\ \E name \in EnvNames, suggested \in SuggestedPorts,
          order \in Orders(DOMAIN mem.reserved) :
          /\ mem' = ReservePort(mem, name, suggested, order)
          /\ last' = [op |-> "ReservePort", name |-> name,
                      suggested |-> suggested,
                      ret |-> ReservePortResult(mem, suggested, order)[1],
                      err |-> "nil", prev |-> mem]
    /\ nops' = nops + 1
    /\ UNCHANGED <<idle, call>>
    /\ UNCHANGED fsVars

DoReleasePorts ==
    /\ nops < MaxOps
    /\ \E name \in EnvNames :
          /\ mem' = ReleasePorts(mem, name)
          /\ last' = [op |-> "ReleasePorts", name |-> name, suggested |-> 0,
                      ret |-> 0, err |-> "nil", prev |-> mem]
    /\ nops' = nops + 1
    /\ UNCHANGED <<idle, call>>
    /\ UNCHANGED fsVars

DoUpsertEnv ==
    /\ nops < MaxOps
    /\ \E name \in EnvNames :
          /\ mem' = UpsertEnv(mem, CreatedEnv(name, now))
          /\ last' = [op |-> "UpsertEnv", name |-> name, suggested |-> 0,
                      ret |-> 0, err |-> "nil", prev |-> mem]
    /\ nops' = nops + 1
    /\ UNCHANGED <<idle, call>>
    /\ UNCHANGED fsVars

DoRemoveEnv ==
    /\ nops < MaxOps
    /\ \E name \in EnvNames :
          /\ mem' = RemoveEnv(mem, name)
          /\ last' = [op |-> "RemoveEnv", name |-> name, suggested |-> 0,
                      ret |-> 0, err |-> "nil", prev |-> mem]
    /\ nops' = nops + 1
    /\ UNCHANGED <<idle, call>>
    /\ UNCHANGED fsVars

(* container.Remove: the session commits the callback's State only when
   the callback returned nil. *)
DoContainerRemove ==
    /\ nops < MaxOps
    /\ \E name \in EnvNames, podman \in PodmanRm :
          LET r == RemoveFn(mem, name, podman, now) IN
          /\ mem' = IF r.err = "nil" THEN r.st ELSE mem
          /\ last' = [op |-> "Remove", name |-> name, suggested |-> 0,
                      ret |-> 0, err |-> r.err, prev |-> mem]
    /\ nops' = nops + 1
    /\ UNCHANGED <<idle, call>>
    /\ UNCHANGED fsVars

(* ------------------------------------------------------------------ *)
(* Files                                                                *)
(* ------------------------------------------------------------------ *)
Missing == [kind |-> "missing", doc |-> NewState]

Corrupt == [kind |-> "corrupt", doc |-> NewState]

(* what os.WriteFile leaves behind between truncating and finishing *)
Partial == [kind |-> "partial", doc |-> NewState]

(* `json:"migrated_dirs,omitempty"`: an empty map is left out of the JSON,
   and a record decoded without the key has a nil map *)
OmitEmpty(env) ==
    IF env.migratedDirs = "empty" THEN [env EXCEPT !.migratedDirs = "nil"]
    ELSE env

(* json.MarshalIndent, as the document json.Unmarshal reads back *)
Marshal(s) ==
    [kind |-> "doc",
     doc |-> [s EXCEPT !.envs = [n \in DOMAIN s.envs |-> OmitEmpty(s.envs[n])]]]

(* json.Unmarshal succeeds on complete documents only *)
Parses(f) == f.kind = "doc"

(* a migration step that gives every environment a fresh empty map *)
MigrateEnvFresh(env) == [env EXCEPT !.migratedDirs = "empty"]

MigrateEnv(env) ==
    IF env.migratedDirs = "nil" THEN [env EXCEPT !.migratedDirs = "empty"]
    ELSE env

migrate(s, from, to) ==
    [(IF from < 2 /\ to >= 2
      THEN [s EXCEPT !.envs = [n \in DOMAIN s.envs |-> MigrateEnv(s.envs[n])]]
      ELSE s)
     EXCEPT !.schema = to]

(* a Load that returns the decoded document as it is *)
Unmigrated(s) == s

Migrated(s) ==
    IF s.schema < SchemaVersion THEN migrate(s, s.schema, SchemaVersion) ELSE s

(* the document stored at a path: what Load makes of its content *)
View(f) == IF Parses(f) THEN Migrated(f.doc) ELSE NewState

RunningVM ==
    [present |-> TRUE, status |-> "running", lastActive |-> 0,
     memory |-> UpMemory]

WebEnv ==
    [name |-> "web", status |-> "running", persistent |-> FALSE,
     lastActive |-> 0, migratedDirs |-> "set"]

ApiEnv ==
    [name |-> "api", status |-> "stopped", persistent |-> FALSE,
     lastActive |-> 0, migratedDirs |-> "nil"]

StoredV2 == UpsertEnv(SetVM(NewState, RunningVM), WebEnv)

StoredV1 == [UpsertEnv(NewState, ApiEnv) EXCEPT !.schema = 1]

InitFiles == {Missing, Corrupt, Marshal(StoredV2), Marshal(StoredV1)}

(* ------------------------------------------------------------------ *)
(* Session callbacks                                                    *)
(* ------------------------------------------------------------------ *)
NoFn == [kind |-> "none", name |-> "", podman |-> "ok", t |-> 0]

(* the callbacks a session may pass, with what they meet when they run:
   the outcome of `podman rm` and the time *)
Fns(t) ==
    {[kind |-> "upsert", name |-> n, podman |-> "ok", t |-> t] : n \in EnvNames}
    \cup {[kind |-> "failing", name |-> n, podman |-> "ok", t |-> t] : n \in EnvNames}
    \cup {[kind |-> "remove", name |-> n, podman |-> o, t |-> t] :
             n \in EnvNames, o \in PodmanRm}
    \cup {[kind |-> "panic", name |-> "", podman |-> "ok", t |-> t]}

(* the callback container.Stop(name) passes *)
StopFns(name, t) ==
    {[kind |-> "stop", name |-> name, podman |-> o, t |-> t] : o \in PodmanStop}

(* the callbacks of the command a user runs next to the autosleep agent:
   create, remove, or record as persistent *)
UserFns(t) ==
    {[kind |-> k, name |-> n, podman |-> "ok", t |-> t] :
        k \in {"create", "remove", "persist"}, n \in EnvNames}

(* the callback lima.Up passes when EnsureVMRunning calls it; podman holds
   the outcome of the limactl commands *)
WakeFns(t) ==
    {[kind |-> "wake", name |-> "", podman |-> o, t |-> t] : o \in LimaUp}

(* the callback of EnsureContainerRunning(name) *)
EnsureFns(name, t) ==
    {[kind |-> "ensure", name |-> name, podman |-> "ok", t |-> t]}

(* the environment the user's commands name *)
OpsEnvs == {"web"}

(* the callbacks of the commands that write the state: `sili vm up`,
   `sili vm stop`, `sili create`, `sili stop` (also the agent's stop) and
   `sili rm`; the VM commands succeed or fail, podman succeeds *)
OpsFns(t) ==
    {[kind |-> "up", name |-> "", podman |-> o, t |-> t] :
        o \in {"ok", "not_running"}}
    \cup {[kind |-> "vmstop", name |-> "", podman |-> o, t |-> t] :
             o \in LimaStop}
    \cup {[kind |-> k, name |-> n, podman |-> "ok", t |-> t] :
             k \in {"create", "stop", "remove"}, n \in OpsEnvs}

DoctorOps == {"checkStateConsistency", "checkContainerDesync"}

(* the callback of the session the call opens: podman holds what Lima or
   podman reported to the doctor *)
CallFns(t) ==
    IF call.op = "checkStateConsistency"
      THEN {[kind |-> "fix_vm", name |-> "", podman |-> call.live, t |-> t]}
    ELSE IF call.op = "checkContainerDesync"
      THEN {[kind |-> "fix_env", name |-> Head(call.todo),
             podman |-> IF Head(call.todo) \in call.running THEN "running"
                        ELSE "not_running",
             t |-> t]}
    ELSE EnsureFns(call.name, t)

(* fn(state): the State the callback leaves in memory and what it returns *)
ApplyFn(f, s) ==
    CASE f.kind = "upsert" ->
           [st |-> UpsertEnv(s, CreatedEnv(f.name, f.t)),
            err |-> "nil"]
      [] f.kind = "failing" ->
           [st |-> UpsertEnv(s, CreatedEnv(f.name, f.t)),
            err |-> "callback"]
      [] f.kind = "remove" -> RemoveFn(s, f.name, f.podman, f.t)
      [] f.kind = "stop" -> StopFn(s, f.name, f.podman, f.t)
      [] f.kind = "create" -> CreateFn(s, f.name, f.podman, f.t)
      [] f.kind = "persist" -> PersistFn(s, f.name, f.t)
      [] f.kind = "wake" -> UpFn(s, WakeMemory, f.podman, f.t)
      [] f.kind = "ensure" -> EnsureFn(s, f.name, f.t)
      [] f.kind = "up" -> UpFn(s, UpMemory, f.podman, f.t)
      [] f.kind = "vmstop" -> VMStopFn(s, f.podman)
      [] f.kind = "fix_vm" -> FixVMFn(s, f.podman)
      [] f.kind = "fix_env" -> FixEnvFn(s, f.name, f.podman)
      [] f.kind = "panic" -> [st |-> s, err |-> "panic"]
      [] OTHER -> [st |-> s, err |-> "nil"]

(* SaveAtomic stamps the schema version before marshalling *)
Stamped(s) == [s EXCEPT !.schema = SchemaVersion]

(* one session with callback f applied alone to the stored document s:
   the document a later Load reads from what the session stores, s itself
   if the callback fails *)
Serialized(f, s) ==
    IF ApplyFn(f, s).err = "nil"
    THEN View(Marshal(Stamped(ApplyFn(f, s).st)))
    ELSE s

(* ------------------------------------------------------------------ *)
(* WithLockedState, Load, SaveAtomic                                    *)
(* ------------------------------------------------------------------ *)
InitFs ==
    /\ statePath \in InitFiles
    /\ tmpPath = Missing
    /\ backups = [t \in Times |-> Missing]
    /\ holders = {}
    /\ now = 0
    /\ faults = 0
    /\ pc = [p \in Procs |-> IF p \in Sessions THEN "idle" ELSE "read"]
    /\ fn = [p \in Procs |-> NoFn]
    /\ st = [p \in Procs |-> NewState]
    /\ data = [p \in Procs |-> Missing]
    /\ err = [p \in Procs |-> "none"]
    /\ startView = [p \in Procs |-> NewState]
    /\ fnRan = [p \in Procs |-> FALSE]
    /\ serialRenamed = View(statePath)
    /\ serialReturned = View(statePath)
    /\ committed = {View(statePath)}

NoCfg == [containerIdleTimeout |-> 0, vmIdleTimeout |-> 0, stopVM |-> FALSE]

NoHist ==
    [evaluated |-> {}, attempted |-> {}, failed |-> {},
     stopCalls |-> [n \in EnvNames |-> 0], evalAt |-> 0]

NoSignals == [cancelled |-> FALSE, signalled |-> FALSE, tick |-> FALSE]

NoWake ==
    [pc |-> "off", ret |-> "none", ups |-> 0, live |-> "none",
     lima |-> "none", vm |-> NoVM]

(* no autosleep agent runs and EnsureVMRunning is not called *)
SchedOff ==
    /\ sched = [pc |-> "off", idleEnvs |-> <<>>, cycle |-> "none", ret |-> "none"]
    /\ cfg = NoCfg
    /\ ctl = NoSignals
    /\ hist = NoHist
    /\ wake = NoWake

Init == InitFs /\ InitMem /\ SchedOff

(* a lock that is granted although another process holds it *)
TryLockShared(h) == TRUE

(* lock.TryLock(): flock(LOCK_EX|LOCK_NB) succeeds iff nobody holds it *)
TryLock(h) == h = {}

(* an Unlock placed after the save instead of deferred *)
UnlockOnSuccess(h, p, e) == IF e = "nil" THEN h \ {p} ELSE h

(* defer lock.Unlock(): runs whatever the call returns, e *)
Unlock(h, p, e) == h \ {p}

(* a session that saves whatever the callback returned *)
AfterFnSaveAlways(e) == "write"

(* after fn returned e: save on nil, return the error otherwise *)
AfterFn(e) == IF e = "nil" THEN "write" ELSE "unlock"

(* a save that writes the state file in place *)
SaveInPlace == "statePath"

(* the path os.WriteFile writes the new document to *)
SaveTarget == "tmpPath"

(* a recovery that deletes the unparseable file *)
QuarantineRemoved(b, t, f) == b

(* os.Rename(statePath, backupPath) with backupPath = statePath.bak-<t> *)
Quarantine(b, t, f) == [b EXCEPT ![t] = f]

InjectFault == faults < MaxFaults /\ faults' = faults + 1

NoFault == faults' = faults

(* the call of p ends with error e before or after the lock is held *)
Return(p, e) ==
    /\ err' = [err EXCEPT ![p] = e]
    /\ pc' = [pc EXCEPT ![p] = IF p \in holders THEN "unlock" ELSE "done"]

(* Load returned (state, nil) to p *)
Loaded(p) ==
    IF p \in Sessions
    THEN pc' = [pc EXCEPT ![p] = "fn"] /\ err' = err
    ELSE pc' = [pc EXCEPT ![p] = "done"] /\ err' = [err EXCEPT ![p] = "nil"]

Begin(p) ==
    /\ p \in Sessions /\ pc[p] = "idle"
    /\ \/ /\ InjectFault          \* ensureStateDir or TryLock fails
          /\ Return(p, "io")
          /\ UNCHANGED <<holders, startView>>
       \/ /\ NoFault /\ ~TryLock(holders)
          /\ Return(p, "busy")
          /\ UNCHANGED <<holders, startView>>
       \/ /\ NoFault /\ TryLock(holders)
          /\ holders' = holders \cup {p}
          /\ startView' = [startView EXCEPT ![p] = View(statePath)]
          /\ pc' = [pc EXCEPT ![p] = "read"]
          /\ err' = err
    /\ UNCHANGED <<statePath, tmpPath, backups, now, fn, st, data, fnRan,
                   serialRenamed, serialReturned, committed>>
    /\ UNCHANGED <<memVars, schedVars>>

LoadRead(p) ==
    /\ pc[p] = "read"
    /\ \/ /\ InjectFault          \* os.ReadFile fails, not with ENOENT
          /\ Return(p, "io")
          /\ UNCHANGED <<st, data>>
       \/ /\ NoFault /\ statePath.kind = "missing"
          /\ st' = [st EXCEPT ![p] = NewState]
          /\ data' = [data EXCEPT ![p] = Missing]
          /\ Loaded(p)
       \/ /\ NoFault /\ statePath.kind # "missing"
          /\ data' = [data EXCEPT ![p] = statePath]
          /\ pc' = [pc EXCEPT ![p] = "parse"]
          /\ UNCHANGED <<st, err>>
    /\ UNCHANGED <<statePath, tmpPath, backups, holders, now, fn, startView,
                   fnRan, serialRenamed, serialReturned, committed>>
    /\ UNCHANGED <<memVars, schedVars>>

LoadParse(p) ==
    /\ pc[p] = "parse"
    /\ \/ /\ Parses(data[p])
          /\ NoFault
          /\ st' = [st EXCEPT ![p] = Migrated(data[p].doc)]
          /\ Loaded(p)
          /\ UNCHANGED <<statePath, backups, committed>>
       \/ /\ ~Parses(data[p])    \* os.Rename finds no file: ENOENT
          /\ statePath.kind = "missing"
          /\ NoFault
          /\ Return(p, "backup")
          /\ UNCHANGED <<statePath, backups, committed, st>>
       \/ /\ ~Parses(data[p])    \* os.Rename fails for another reason
          /\ statePath.kind # "missing"
          /\ InjectFault
          /\ Return(p, "io")
          /\ UNCHANGED <<statePath, backups, committed, st>>
       \/ /\ ~Parses(data[p])    \* os.Rename moves what is at the path now
          /\ statePath.kind # "missing"
          /\ NoFault
          /\ backups' = Quarantine(backups, now, statePath)
          /\ statePath' = Missing
          /\ committed' = committed \cup {NewState}
          /\ st' = [st EXCEPT ![p] = NewState]
          /\ Loaded(p)
    /\ UNCHANGED <<tmpPath, holders, now, fn, data, startView, fnRan,
                   serialRenamed, serialReturned>>
    /\ UNCHANGED <<memVars, schedVars>>

(* the callbacks process p may pass: that of lima.Up for the session
   EnsureVMRunning opens and that of the session EnsureContainerRunning or
   the doctor opens; a command next to the doctor; otherwise any of Fns
   when no agent runs; next to the agent, the stop of the environment at the head of the agent's loop
   for the agent's session and a user command for the other *)
FnsFor(p, t) ==
    IF p = Starter /\ wake.pc = "up" THEN WakeFns(t)
    ELSE IF p = Starter /\ call.pc = "update" THEN CallFns(t)
    ELSE IF call.op \in DoctorOps THEN OpsFns(t)
    ELSE IF sched.pc = "off" THEN Fns(t)
    ELSE IF p = Stopper THEN StopFns(Head(sched.idleEnvs), t)
    ELSE UserFns(t)

(* a Stop that runs `podman stop` before it looks at the State *)
CallsPodmanStopFirst(f, s) == f.kind = "stop"

(* the callback runs `podman stop` *)
CallsPodmanStop(f, s) == f.kind = "stop" /\ HasEnv(s, f.name)

CallFn(p) ==
    /\ pc[p] = "fn"
    /\ \E f \in FnsFor(p, now) :
       LET r == ApplyFn(f, st[p])
       IN /\ fn' = [fn EXCEPT ![p] = f]
          /\ st' = [st EXCEPT ![p] = r.st]
          /\ fnRan' = [fnRan EXCEPT ![p] = TRUE]
          /\ pc' = [pc EXCEPT ![p] = AfterFn(r.err)]
          /\ err' = [err EXCEPT ![p] = IF r.err = "nil" THEN err[p] ELSE r.err]
          /\ hist' = IF CallsPodmanStop(f, st[p])
                     THEN [hist EXCEPT !.stopCalls[f.name] = @ + 1]
                     ELSE hist
          /\ wake' = IF f.kind = "wake" THEN [wake EXCEPT !.lima = f.podman]
                     ELSE wake
    /\ UNCHANGED <<statePath, tmpPath, backups, holders, now, faults, data,
                   startView, serialRenamed, serialReturned, committed>>
    /\ UNCHANGED <<memVars, sched, cfg, ctl>>

(* SaveAtomic up to the point where os.WriteFile has truncated the file *)
SaveWrite(p) ==
    /\ pc[p] = "write"
    /\ st' = [st EXCEPT ![p] = Stamped(st[p])]
    /\ \/ /\ InjectFault          \* the file cannot be opened
          /\ Return(p, "io")
          /\ UNCHANGED <<statePath, tmpPath, committed>>
       \/ /\ NoFault
          /\ IF SaveTarget = "tmpPath"
             THEN tmpPath' = Partial /\ UNCHANGED <<statePath, committed>>
             ELSE statePath' = Partial /\ UNCHANGED <<tmpPath, committed>>
          /\ pc' = [pc EXCEPT ![p] = "write2"]
          /\ err' = err
    /\ UNCHANGED <<backups, holders, now, fn, data, startView, fnRan,
                   serialRenamed, serialReturned>>
    /\ UNCHANGED <<memVars, schedVars>>

(* os.WriteFile writes the rest of the bytes *)
SaveWriteRest(p) ==
    /\ pc[p] = "write2"
    /\ \/ /\ InjectFault          \* the write fails midway
          /\ Return(p, "io")
          /\ UNCHANGED <<statePath, tmpPath>>
       \/ /\ NoFault
          /\ IF SaveTarget = "tmpPath"
             THEN tmpPath' = Marshal(st[p]) /\ UNCHANGED statePath
             ELSE statePath' = Marshal(st[p]) /\ UNCHANGED tmpPath
          /\ pc' = [pc EXCEPT ![p] = "sync"]
          /\ err' = err
    /\ UNCHANGED <<backups, holders, now, fn, st, data, startView, fnRan,
                   serialRenamed, serialReturned, committed>>
    /\ UNCHANGED <<memVars, schedVars>>

(* os.OpenFile(tmpPath) and file.Sync() *)
SaveSync(p) ==
    /\ pc[p] = "sync"
    /\ \/ InjectFault /\ Return(p, "io")
       \/ NoFault /\ pc' = [pc EXCEPT ![p] = "rename"] /\ err' = err
    /\ UNCHANGED <<statePath, tmpPath, backups, holders, now, fn, st, data,
                   startView, fnRan, serialRenamed, serialReturned, committed>>
    /\ UNCHANGED <<memVars, schedVars>>

(* os.Rename(tmpPath, statePath) *)
SaveRename(p) ==
    /\ pc[p] = "rename"
    /\ \/ /\ InjectFault
          /\ Return(p, "io")
          /\ UNCHANGED <<statePath, tmpPath, serialRenamed, committed>>
       \/ /\ NoFault
          /\ IF SaveTarget = "tmpPath"
             THEN statePath' = tmpPath /\ tmpPath' = Missing
             ELSE UNCHANGED <<statePath, tmpPath>>
          /\ committed' = committed \cup {View(statePath')}
          /\ serialRenamed' = Serialized(fn[p], serialRenamed)
          /\ pc' = [pc EXCEPT ![p] = "dirsync"]
          /\ err' = err
    /\ UNCHANGED <<backups, holders, now, fn, st, data, startView, fnRan,
                   serialReturned>>
    /\ UNCHANGED <<memVars, schedVars>>

(* os.Open(dir), dir.Sync(), return nil *)
SaveDirSync(p) ==
    /\ pc[p] = "dirsync"
    /\ \/ /\ InjectFault
          /\ Return(p, "dirsync")
          /\ UNCHANGED serialReturned
       \/ /\ NoFault
          /\ Return(p, "nil")
          /\ serialReturned' = Serialized(fn[p], serialReturned)
    /\ UNCHANGED <<statePath, tmpPath, backups, holders, now, fn, st, data,
                   startView, fnRan, serialRenamed, committed>>
    /\ UNCHANGED <<memVars, schedVars>>

(* the deferred lock.Unlock() as WithLockedState returns *)
Release(p) ==
    /\ pc[p] = "unlock"
    /\ holders' = Unlock(holders, p, err[p])
    /\ pc' = [pc EXCEPT ![p] = "done"]
    /\ fn' = [fn EXCEPT ![p] = NoFn]
    /\ st' = [st EXCEPT ![p] = NewState]
    /\ data' = [data EXCEPT ![p] = Missing]
    /\ startView' = [startView EXCEPT ![p] = NewState]
    /\ UNCHANGED <<statePath, tmpPath, backups, now, faults, err,
                   fnRan, serialRenamed, serialReturned, committed>>
    /\ UNCHANGED <<memVars, schedVars>>

Tick ==
    /\ now < MaxClock
    /\ now' = now + 1
    /\ UNCHANGED <<statePath, tmpPath, backups, holders, faults, pc, fn, st,
                   data, err, startView, fnRan, serialRenamed, serialReturned,
                   committed>>
    /\ UNCHANGED <<memVars, schedVars>>

WithLockedState(p) ==
    \/ Begin(p)
    \/ LoadRead(p)
    \/ LoadParse(p)
    \/ CallFn(p)
    \/ SaveWrite(p)
    \/ SaveWriteRest(p)
    \/ SaveSync(p)
    \/ SaveRename(p)
    \/ SaveDirSync(p)
    \/ Release(p)

Load(p) == LoadRead(p) \/ LoadParse(p)

(* ------------------------------------------------------------------ *)
(* RunAutosleep and checkAndStopIdle (package agent)                    *)
(* ------------------------------------------------------------------ *)
(* checkAndStopIdle is entered: GetIdleEnvironments calls state.Load() *)
BeginCheck(cycle) ==
    /\ sched' = [sched EXCEPT !.pc = "evaluating", !.cycle = cycle,
                              !.idleEnvs = <<>>]
    /\ pc' = [pc EXCEPT ![Evaluator] = "read"]
    /\ err' = [err EXCEPT ![Evaluator] = "none"]
    /\ hist' = NoHist

(* "Run initial check immediately" *)
InitialCheck ==
    /\ sched.pc = "start"
    /\ BeginCheck("initial")
    /\ UNCHANGED <<statePath, tmpPath, backups, holders, now, faults, fn, st,
                   data, startView, fnRan, serialRenamed, serialReturned,
                   committed, cfg, ctl>>
    /\ UNCHANGED <<memVars, wake>>

(* GetIdleEnvironments returns: an error ends the cycle, otherwise the idle
   environments in the order the map iteration of ListEnvs produced *)
Evaluate ==
    /\ sched.pc = "evaluating" /\ pc[Evaluator] = "done"
    /\ IF err[Evaluator] # "nil"
       THEN /\ sched' = [sched EXCEPT !.pc = "select"]
            /\ hist' = hist
       ELSE LET found == GetIdleEnvironments(st[Evaluator], now,
                                             cfg.containerIdleTimeout)
            IN \E order \in Orders(found) :
                 /\ sched' = [sched EXCEPT
                                 !.pc = IF found = {} THEN "select" ELSE "loop",
                                 !.idleEnvs = order]
                 /\ hist' = [hist EXCEPT !.evaluated = found, !.evalAt = now]
    /\ UNCHANGED <<statePath, tmpPath, backups, holders, now, faults, pc, fn,
                   st, data, err, startView, fnRan, serialRenamed,
                   serialReturned, committed, cfg, ctl>>
    /\ UNCHANGED <<memVars, wake>>

(* container.Stop(env.Name) is called for the next idle environment *)
CallStop ==
    /\ sched.pc = "loop" /\ sched.idleEnvs # <<>>
    /\ sched' = [sched EXCEPT !.pc = "stopping"]
    /\ pc' = [pc EXCEPT ![Stopper] = "idle"]
    /\ err' = [err EXCEPT ![Stopper] = "none"]
    /\ hist' = [hist EXCEPT !.attempted = @ \cup {Head(sched.idleEnvs)}]
    /\ UNCHANGED <<statePath, tmpPath, backups, holders, now, faults, fn, st,
                   data, startView, fnRan, serialRenamed, serialReturned,
                   committed, cfg, ctl>>
    /\ UNCHANGED <<memVars, wake>>

(* a loop that gives up at the first environment that cannot be stopped *)
AfterStopAbortOnError(envs, e) == IF e = "nil" THEN Tail(envs) ELSE <<>>

(* the environments left to stop after container.Stop returned e: the
   failure is printed and the loop continues *)
AfterStop(envs, e) == Tail(envs)

StopReturned ==
    /\ sched.pc = "stopping" /\ pc[Stopper] = "done"
    /\ sched' = [sched EXCEPT !.pc = "loop",
                              !.idleEnvs = AfterStop(@, err[Stopper])]
    /\ hist' = IF err[Stopper] = "nil" THEN hist
               ELSE [hist EXCEPT !.failed = @ \cup {Head(sched.idleEnvs)}]
    /\ UNCHANGED <<statePath, tmpPath, backups, holders, now, faults, pc, fn,
                   st, data, err, startView, fnRan, serialRenamed,
                   serialReturned, committed, cfg, ctl>>
    /\ UNCHANGED <<memVars, wake>>

(* checkAndStopIdle returns nil after the loop *)
EndCheck ==
    /\ sched.pc = "loop" /\ sched.idleEnvs = <<>>
    /\ sched' = [sched EXCEPT !.pc = "select"]
    /\ UNCHANGED <<statePath, tmpPath, backups, holders, now, faults, pc, fn,
                   st, data, err, startView, fnRan, serialRenamed,
                   serialReturned, committed, cfg, ctl, hist>>
    /\ UNCHANGED <<memVars, wake>>

(* select picks `case <-ctx.Done()`; with several cases ready Go picks any *)
SelectDone ==
    /\ sched.pc = "select" /\ ctl.cancelled
    /\ sched' = [sched EXCEPT !.pc = "exited", !.ret = "ctx"]
    /\ UNCHANGED <<statePath, tmpPath, backups, holders, now, faults, pc, fn,
                   st, data, err, startView, fnRan, serialRenamed,
                   serialReturned, committed, cfg, ctl, hist>>
    /\ UNCHANGED <<memVars, wake>>

(* select picks `case <-sigChan` *)
SelectSignal ==
    /\ sched.pc = "select" /\ ctl.signalled
    /\ sched' = [sched EXCEPT !.pc = "exited", !.ret = "nil"]
    /\ ctl' = [ctl EXCEPT !.signalled = FALSE]
    /\ UNCHANGED <<statePath, tmpPath, backups, holders, now, faults, pc, fn,
                   st, data, err, startView, fnRan, serialRenamed,
                   serialReturned, committed, cfg, hist>>
    /\ UNCHANGED <<memVars, wake>>

(* select picks `case <-ticker.C`: one more checkAndStopIdle *)
SelectTick ==
    /\ sched.pc = "select" /\ ctl.tick
    /\ sched.cycle = "initial"
    /\ ctl' = [ctl EXCEPT !.tick = FALSE]
    /\ BeginCheck("tick")
    /\ UNCHANGED <<statePath, tmpPath, backups, holders, now, faults, fn, st,
                   data, startView, fnRan, serialRenamed, serialReturned,
                   committed, cfg>>
    /\ UNCHANGED <<memVars, wake>>

Running == sched.pc \notin {"off", "exited"}

(* the caller cancels ctx *)
Cancel ==
    /\ Running /\ ~ctl.cancelled
    /\ ctl' = [ctl EXCEPT !.cancelled = TRUE]
    /\ UNCHANGED <<statePath, tmpPath, backups, holders, now, faults, pc, fn,
                   st, data, err, startView, fnRan, serialRenamed,
                   serialReturned, committed, sched, cfg, hist>>
    /\ UNCHANGED <<memVars, wake>>

(* SIGINT or SIGTERM is delivered into sigChan (capacity 1) *)
Signal ==
    /\ Running /\ ~ctl.signalled
    /\ ctl' = [ctl EXCEPT !.signalled = TRUE]
    /\ UNCHANGED <<statePath, tmpPath, backups, holders, now, faults, pc, fn,
                   st, data, err, startView, fnRan, serialRenamed,
                   serialReturned, committed, sched, cfg, hist>>
    /\ UNCHANGED <<memVars, wake>>

(* PollInterval has passed: the ticker puts a tick into ticker.C
   (capacity 1) *)
TickerFire ==
    /\ Running /\ ~ctl.tick
    /\ sched.cycle # "tick"
    /\ ctl' = [ctl EXCEPT !.tick = TRUE]
    /\ UNCHANGED <<statePath, tmpPath, backups, holders, now, faults, pc, fn,
                   st, data, err, startView, fnRan, serialRenamed,
                   serialReturned, committed, sched, cfg, hist>>
    /\ UNCHANGED <<memVars, wake>>

checkAndStopIdle ==
    \/ Load(Evaluator)
    \/ Evaluate
    \/ CallStop
    \/ WithLockedState(Stopper)
    \/ StopReturned
    \/ EndCheck

RunAutosleep ==
    \/ InitialCheck
    \/ checkAndStopIdle
    \/ SelectDone
    \/ SelectSignal
    \/ SelectTick

(* the stored documents the agent is started on: a running VM with two
   running environments, and a running VM whose only environment is
   stopped; all last active at time 0 *)
DocBusy ==
    UpsertEnv(UpsertEnv(SetVM(NewState, RunningVM), WebEnv),
              [ApiEnv EXCEPT !.status = "running"])

DocQuiet == UpsertEnv(SetVM(NewState, RunningVM), ApiEnv)

(* every configuration whose timeouts can expire on the bounded clock *)
AgentCfgs ==
    {[containerIdleTimeout |-> c, vmIdleTimeout |-> c, stopVM |-> b] :
        c \in 0..(MaxClock - 1), b \in BOOLEAN}

(* the longest such timeouts, with VM auto-stop enabled as in
   DefaultAutosleepConfig *)
LongestCfg ==
    [containerIdleTimeout |-> MaxClock - 1, vmIdleTimeout |-> MaxClock - 1,
     stopVM |-> TRUE]

InitAgent(docs, cfgs) ==
    /\ statePath \in {Marshal(d) : d \in docs}
    /\ tmpPath = Missing
    /\ backups = [t \in Times |-> Missing]
    /\ holders = {}
    /\ now = 0
    /\ faults = 0
    /\ pc = [p \in Procs |-> IF p = User THEN "idle" ELSE "done"]
    /\ fn = [p \in Procs |-> NoFn]
    /\ st = [p \in Procs |-> NewState]
    /\ data = [p \in Procs |-> Missing]
    /\ err = [p \in Procs |-> "none"]
    /\ startView = [p \in Procs |-> NewState]
    /\ fnRan = [p \in Procs |-> FALSE]
    /\ serialRenamed = View(statePath)
    /\ serialReturned = View(statePath)
    /\ committed = {View(statePath)}
    /\ InitMem
    /\ sched = [pc |-> "start", idleEnvs |-> <<>>, cycle |-> "none",
                ret |-> "none"]
    /\ cfg \in cfgs
    /\ ctl = NoSignals
    /\ hist = NoHist
    /\ wake = NoWake

(* the agent, neither cancelled nor signalled, next to a user's CLI
   command *)
NextAgent ==
    \/ InitialCheck
    \/ checkAndStopIdle
    \/ SelectTick
    \/ WithLockedState(User)
    \/ TickerFire
    \/ Tick

SpecAgent == InitAgent({DocBusy}, {LongestCfg}) /\ [][NextAgent]_vars

(* the agent alone, with cancellation and signals *)
NextShutdown ==
    \/ RunAutosleep
    \/ Cancel
    \/ Signal
    \/ TickerFire
    \/ Tick

SpecShutdown == InitAgent({DocBusy, DocQuiet}, AgentCfgs) /\ [][NextShutdown]_vars

(* `case <-ticker.C` in every round of the loop: one more
   checkAndStopIdle *)
SelectTicker ==
    /\ sched.pc = "select" /\ ctl.tick
    /\ ctl' = [ctl EXCEPT !.tick = FALSE]
    /\ BeginCheck("tick")
    /\ UNCHANGED <<statePath, tmpPath, backups, holders, now, faults, fn, st,
                   data, startView, fnRan, serialRenamed, serialReturned,
                   committed, cfg>>
    /\ UNCHANGED <<memVars, wake>>

(* the ticker fires every PollInterval for as long as the agent runs *)
TickerC ==
    /\ Running /\ ~ctl.tick
    /\ ctl' = [ctl EXCEPT !.tick = TRUE]
    /\ UNCHANGED <<statePath, tmpPath, backups, holders, now, faults, pc, fn,
                   st, data, err, startView, fnRan, serialRenamed,
                   serialReturned, committed, sched, cfg, hist>>
    /\ UNCHANGED <<memVars, wake>>

(* the steps of the agent's goroutine: at most one is enabled at a time *)
AgentStep == InitialCheck \/ checkAndStopIdle \/ SelectTicker

(* the agent ticking for ever next to a user's CLI command *)
NextTicking ==
    \/ InitialCheck
    \/ checkAndStopIdle
    \/ SelectTicker
    \/ TickerC
    \/ WithLockedState(User)
    \/ Tick

(* the agent's goroutine keeps running and its ticker keeps firing; it is
   started on a running VM with one running environment *)
SpecTicking ==
    /\ InitAgent({StoredV2}, {LongestCfg})
    /\ [][NextTicking]_vars
    /\ WF_vars(AgentStep)
    /\ WF_vars(TickerC)

(* ------------------------------------------------------------------ *)
(* EnsureVMRunning (package vm)                                         *)
(* ------------------------------------------------------------------ *)
(* what lima.GetInstance() answers: an error, no instance, or the status
   of the instance *)
LimaQuery == {"error", "not_found", "Running", "Stopped"}

(* an EnsureVMRunning that goes on to start the VM without a VM record *)
AfterNoVMStart == [pc |-> "start", ret |-> "none"]

(* `if vm == nil`: return the "VM not found" error *)
AfterNoVM == [pc |-> "done", ret |-> "vm_not_found"]

(* state.Load() has returned: the checks up to the Lima query *)
WakeDecide ==
    /\ wake.pc = "load" /\ pc[Waker] = "done"
    /\ wake' =
         IF err[Waker] # "nil"
           THEN [wake EXCEPT !.pc = "done", !.ret = "load"]
         ELSE IF ~st[Waker].vm.present
           THEN [wake EXCEPT !.pc = AfterNoVM.pc, !.ret = AfterNoVM.ret]
         ELSE IF st[Waker].vm.status = "running"
           THEN [wake EXCEPT !.pc = "query", !.vm = st[Waker].vm]
         ELSE [wake EXCEPT !.pc = "start", !.vm = st[Waker].vm]
    /\ UNCHANGED <<statePath, tmpPath, backups, holders, now, faults, pc, fn,
                   st, data, err, startView, fnRan, serialRenamed,
                   serialReturned, committed, sched, cfg, ctl, hist>>
    /\ UNCHANGED memVars

(* the state says running: lima.GetInstance() *)
WakeQuery ==
    /\ wake.pc = "query"
    /\ \E answer \in LimaQuery :
         wake' =
           IF answer = "error"
             THEN [wake EXCEPT !.pc = "done", !.ret = "status", !.live = answer]
           ELSE IF answer = "Running"
             THEN [wake EXCEPT !.pc = "done", !.ret = "nil", !.live = answer]
           ELSE [wake EXCEPT !.pc = "start", !.live = answer]
    /\ UNCHANGED <<statePath, tmpPath, backups, holders, now, faults, pc, fn,
                   st, data, err, startView, fnRan, serialRenamed,
                   serialReturned, committed, sched, cfg, ctl, hist>>
    /\ UNCHANGED memVars

(* lima.Up(cfg) is called: it opens a locked session *)
WakeStart ==
    /\ wake.pc = "start"
    /\ wake' = [wake EXCEPT !.pc = "up", !.ups = @ + 1]
    /\ pc' = [pc EXCEPT ![Starter] = "idle"]
    /\ err' = [err EXCEPT ![Starter] = "none"]
    /\ UNCHANGED <<statePath, tmpPath, backups, holders, now, faults, fn, st,
                   data, startView, fnRan, serialRenamed, serialReturned,
                   committed, sched, cfg, ctl, hist>>
    /\ UNCHANGED memVars

(* lima.Up returned: its error is wrapped, nil is passed on *)
WakeReturned ==
    /\ wake.pc = "up" /\ pc[Starter] = "done"
    /\ wake' = [wake EXCEPT !.pc = "done",
                            !.ret = IF err[Starter] = "nil" THEN "nil"
                                    ELSE "start"]
    /\ UNCHANGED <<statePath, tmpPath, backups, holders, now, faults, pc, fn,
                   st, data, err, startView, fnRan, serialRenamed,
                   serialReturned, committed, sched, cfg, ctl, hist>>
    /\ UNCHANGED memVars

EnsureVMRunning ==
    \/ Load(Waker)
    \/ WakeDecide
    \/ WakeQuery
    \/ WakeStart
    \/ WithLockedState(Starter)
    \/ WakeReturned

(* a stored document whose VM is recorded as stopped *)
StoredStopped == SetVM(StoredV2, [RunningVM EXCEPT !.status = "stopped"])

WakeFiles == InitFiles \cup {Marshal(StoredStopped)}

(* EnsureVMRunning is called while one CLI session runs *)
InitWake ==
    /\ statePath \in WakeFiles
    /\ tmpPath = Missing
    /\ backups = [t \in Times |-> Missing]
    /\ holders = {}
    /\ now = 0
    /\ faults = 0
    /\ pc = [p \in Procs |-> IF p = User THEN "idle"
                              ELSE IF p = Waker THEN "read" ELSE "done"]
    /\ fn = [p \in Procs |-> NoFn]
    /\ st = [p \in Procs |-> NewState]
    /\ data = [p \in Procs |-> Missing]
    /\ err = [p \in Procs |-> "none"]
    /\ startView = [p \in Procs |-> NewState]
    /\ fnRan = [p \in Procs |-> FALSE]
    /\ serialRenamed = View(statePath)
    /\ serialReturned = View(statePath)
    /\ committed = {View(statePath)}
    /\ InitMem
    /\ sched = [pc |-> "off", idleEnvs |-> <<>>, cycle |-> "none", ret |-> "none"]
    /\ cfg = NoCfg /\ ctl = NoSignals /\ hist = NoHist
    /\ wake = [NoWake EXCEPT !.pc = "load"]

NextWake == EnsureVMRunning \/ WithLockedState(User) \/ Tick

SpecWake == InitWake /\ [][NextWake]_vars

(* ------------------------------------------------------------------ *)
(* EnsureContainerRunning (package vm), Enter and Run (package          *)
(* container)                                                           *)
(* ------------------------------------------------------------------ *)
(* a status check that sends every environment on to startContainer *)
EnvIsRunningNever(env) == FALSE

(* `if env.Status == "running"` *)
EnvIsRunning(env) == env.status = "running"

(* a startContainer that starts the container *)
startContainerOk(name) == "nil"

(* startContainer(name): the MVP starts nothing and returns the error that
   names `sili rm` + `sili create` and `podman start` *)
startContainer(name) == "manual_start_required"

(* state.Load() has returned to EnsureContainerRunning: the checks up to
   startContainer *)
EnsureCheck ==
    /\ call.op = "EnsureContainerRunning"
    /\ call.pc = "load" /\ pc[Caller] = "done"
    /\ call' =
         IF err[Caller] # "nil"
           THEN [call EXCEPT !.pc = "done", !.ret = "load"]
         ELSE IF ~HasEnv(st[Caller], call.name)
           THEN [call EXCEPT !.pc = "done", !.ret = "not_found"]
         ELSE IF EnvIsRunning(st[Caller].envs[call.name])
           THEN [call EXCEPT !.pc = "done", !.ret = "nil"]
         ELSE [call EXCEPT !.pc = "start"]
    /\ UNCHANGED <<mem, last, nops, idle>>
    /\ UNCHANGED fsVars

(* EnsureContainerRunning from startContainer on: its error is returned;
   after nil the state is updated in a locked session, whose error is only
   printed, and (true, nil) is returned *)
EnsureStart ==
    /\ call.op = "EnsureContainerRunning"
    /\ call.pc \in {"start", "update"}
    /\ IF call.pc = "start"
       THEN IF startContainer(call.name) # "nil"
            THEN /\ call' = [call EXCEPT !.pc = "done",
                                         !.ret = startContainer(call.name),
                                         !.starts = @ + 1]
                 /\ UNCHANGED <<pc, err>>
            ELSE /\ call' = [call EXCEPT !.pc = "update", !.starts = @ + 1]
                 /\ pc' = [pc EXCEPT ![Starter] = "idle"]
                 /\ err' = [err EXCEPT ![Starter] = "none"]
       ELSE /\ pc[Starter] = "done"
            /\ call' = [call EXCEPT !.pc = "done", !.ret = "nil",
                                    !.started = TRUE]
            /\ UNCHANGED <<pc, err>>
    /\ UNCHANGED <<mem, last, nops, idle>>
    /\ UNCHANGED <<statePath, tmpPath, backups, holders, now, faults, fn, st,
                   data, startView, fnRan, serialRenamed, serialReturned,
                   committed, sched, cfg, ctl, hist, wake>>

EnsureContainerRunning ==
    \/ Load(Caller)
    \/ EnsureCheck
    \/ EnsureStart
    \/ WithLockedState(Starter)

(* what isContainerRunning(name) answers: `podman ps` fails, lists the
   container, or does not *)
PodmanPs == {"error", "running", "not_running"}

(* state.Load() has returned to Enter or Run *)
AccessCheck ==
    /\ call.op \in {"Enter", "Run"}
    /\ call.pc = "load" /\ pc[Caller] = "done"
    /\ call' =
         IF err[Caller] # "nil"
           THEN [call EXCEPT !.pc = "done", !.ret = "load"]
         ELSE IF ~HasEnv(st[Caller], call.name)
           THEN [call EXCEPT !.pc = "done", !.ret = "not_found"]
         ELSE [call EXCEPT !.pc = "ps"]
    /\ UNCHANGED <<mem, last, nops, idle>>
    /\ UNCHANGED fsVars

(* isContainerRunning, then `podman exec` in the container: the shell or
   the command has run when Enter or Run returns *)
AccessExec ==
    /\ call.op \in {"Enter", "Run"}
    /\ call.pc = "ps"
    /\ \E answer \in PodmanPs :
         call' =
           IF answer = "error"
             THEN [call EXCEPT !.pc = "done", !.ret = "status"]
           ELSE IF answer = "not_running"
             THEN [call EXCEPT !.pc = "done", !.ret = "not_running"]
           ELSE [call EXCEPT !.pc = "done", !.ret = "nil",
                             !.accessed = TRUE, !.at = now]
    /\ UNCHANGED <<mem, last, nops, idle>>
    /\ UNCHANGED fsVars

Access == Load(Caller) \/ AccessCheck \/ AccessExec

AccessFiles == {Missing, Corrupt, Marshal(StoredV2), Marshal(DocQuiet)}

AccessOps == {"EnsureContainerRunning", "Enter", "Run"}

(* one of the calls is made for one of the names while one CLI session
   runs *)
InitAccess ==
    /\ statePath \in AccessFiles
    /\ tmpPath = Missing
    /\ backups = [t \in Times |-> Missing]
    /\ holders = {}
    /\ now = 0
    /\ faults = 0
    /\ pc = [p \in Procs |-> IF p = User THEN "idle"
                              ELSE IF p = Caller THEN "read" ELSE "done"]
    /\ fn = [p \in Procs |-> NoFn]
    /\ st = [p \in Procs |-> NewState]
    /\ data = [p \in Procs |-> Missing]
    /\ err = [p \in Procs |-> "none"]
    /\ startView = [p \in Procs |-> NewState]
    /\ fnRan = [p \in Procs |-> FALSE]
    /\ serialRenamed = View(statePath)
    /\ serialReturned = View(statePath)
    /\ committed = {View(statePath)}
    /\ mem = NewState /\ last = NoOp /\ nops = 0 /\ idle = NoEval
    /\ \E op \in AccessOps, name \in EnvNames :
          call = [NoCall EXCEPT !.op = op, !.pc = "load", !.name = name]
    /\ SchedOff

NextAccess ==
    \/ EnsureContainerRunning
    \/ Access
    \/ WithLockedState(User)
    \/ Tick

SpecAccess == InitAccess /\ [][NextAccess]_vars

(* ------------------------------------------------------------------ *)
(* The commands that write the state, next to `sili doctor --fix`       *)
(* ------------------------------------------------------------------ *)
(* the doctor's session has to be opened: the call's position moves to it *)
OpenFixSession ==
    /\ pc' = [pc EXCEPT ![Starter] = "idle"]
    /\ err' = [err EXCEPT ![Starter] = "none"]

(* checkStateConsistency after state.Load(): no VM record is fine; Lima is
   asked; a missing instance is fixed when the state says running, and a
   live status that differs from the stored one, both lower-cased, is
   copied into the state *)
DoctorCheckVM ==
    /\ call.op = "checkStateConsistency"
    /\ call.pc = "load" /\ pc[Caller] = "done"
    /\ IF err[Caller] # "nil"
       THEN /\ call' = [call EXCEPT !.pc = "done", !.ret = "load"]
            /\ UNCHANGED <<pc, err>>
       ELSE IF ~st[Caller].vm.present
       THEN /\ call' = [call EXCEPT !.pc = "done", !.ret = "nil"]
            /\ UNCHANGED <<pc, err>>
       ELSE \E answer \in LimaLive :
              LET stale ==
                    IF answer = "not_found"
                    THEN st[Caller].vm.status = "running"
                    ELSE ToLower(st[Caller].vm.status) # ToLower(answer)
              IN IF answer = "error"
                 THEN /\ call' = [call EXCEPT !.pc = "done", !.ret = "lima",
                                              !.live = answer]
                      /\ UNCHANGED <<pc, err>>
                 ELSE IF stale
                 THEN /\ call' = [call EXCEPT !.pc = "update", !.live = answer]
                      /\ OpenFixSession
                 ELSE /\ call' = [call EXCEPT !.pc = "done", !.ret = "nil",
                                              !.live = answer]
                      /\ UNCHANGED <<pc, err>>
    /\ UNCHANGED <<mem, last, nops, idle>>
    /\ UNCHANGED <<statePath, tmpPath, backups, holders, now, faults, fn, st,
                   data, startView, fnRan, serialRenamed, serialReturned,
                   committed, sched, cfg, ctl, hist, wake>>

(* the session of checkStateConsistency has returned *)
DoctorFixed ==
    /\ call.op = "checkStateConsistency"
    /\ call.pc = "update" /\ pc[Starter] = "done"
    /\ call' = [call EXCEPT !.pc = "done",
                            !.ret = IF err[Starter] = "nil" THEN "nil"
                                    ELSE "fix_failed"]
    /\ UNCHANGED <<mem, last, nops, idle>>
    /\ UNCHANGED fsVars

(* checkContainerDesync begins with lima.GetInstance(): it goes on to
   state.Load() only when the instance is Running *)
DesyncLive ==
    /\ call.op = "checkContainerDesync"
    /\ call.pc = "live"
    /\ \E answer \in LimaLive :
         IF answer = "Running"
         THEN /\ call' = [call EXCEPT !.pc = "load", !.live = answer]
              /\ pc' = [pc EXCEPT ![Caller] = "read"]
              /\ err' = [err EXCEPT ![Caller] = "none"]
         ELSE /\ call' = [call EXCEPT !.pc = "done", !.ret = "nil",
                                      !.live = answer]
              /\ UNCHANGED <<pc, err>>
    /\ UNCHANGED <<mem, last, nops, idle>>
    /\ UNCHANGED <<statePath, tmpPath, backups, holders, now, faults, fn, st,
                   data, startView, fnRan, serialRenamed, serialReturned,
                   committed, sched, cfg, ctl, hist, wake>>

(* state.Load(), ListEnvs in the order of the map iteration, and
   container.List(): it fails or names the running containers *)
DesyncList ==
    /\ call.op = "checkContainerDesync"
    /\ call.pc = "load" /\ pc[Caller] = "done"
    /\ IF err[Caller] # "nil" \/ DOMAIN st[Caller].envs = {}
       THEN call' = [call EXCEPT !.pc = "done", !.ret = "nil"]
       ELSE \/ call' = [call EXCEPT !.pc = "done", !.ret = "list"]
            \/ \E order \in Orders(DOMAIN st[Caller].envs),
                  listed \in SUBSET DOMAIN st[Caller].envs :
                  call' = [call EXCEPT !.pc = "loop", !.todo = order,
                                       !.running = listed]
    /\ UNCHANGED <<mem, last, nops, idle>>
    /\ UNCHANGED fsVars

(* the state says running and podman does not list the container, or the
   state says stopped and podman lists it *)
Desynced(env, listed) ==
    \/ env.status = "running" /\ env.name \notin listed
    \/ env.status = "stopped" /\ env.name \in listed

(* one round of the loop over the environments that were loaded *)
DesyncNext ==
    /\ call.op = "checkContainerDesync"
    /\ call.pc = "loop"
    /\ IF call.todo = <<>>
       THEN /\ call' = [call EXCEPT !.pc = "done", !.ret = "nil"]
            /\ UNCHANGED <<pc, err>>
       ELSE IF Desynced(st[Caller].envs[Head(call.todo)], call.running)
       THEN /\ call' = [call EXCEPT !.pc = "update"]
            /\ OpenFixSession
       ELSE /\ call' = [call EXCEPT !.todo = Tail(@)]
            /\ UNCHANGED <<pc, err>>
    /\ UNCHANGED <<mem, last, nops, idle>>
    /\ UNCHANGED <<statePath, tmpPath, backups, holders, now, faults, fn, st,
                   data, startView, fnRan, serialRenamed, serialReturned,
                   committed, sched, cfg, ctl, hist, wake>>

(* the session of the fix has returned: its error is a warning, the loop
   goes on *)
DesyncFixed ==
    /\ call.op = "checkContainerDesync"
    /\ call.pc = "update" /\ pc[Starter] = "done"
    /\ call' = [call EXCEPT !.pc = "loop", !.todo = Tail(@)]
    /\ UNCHANGED <<mem, last, nops, idle>>
    /\ UNCHANGED fsVars

checkStateConsistency ==
    \/ Load(Caller)
    \/ DoctorCheckVM
    \/ WithLockedState(Starter)
    \/ DoctorFixed

checkContainerDesync ==
    \/ DesyncLive
    \/ Load(Caller)
    \/ DesyncList
    \/ DesyncNext
    \/ WithLockedState(Starter)
    \/ DesyncFixed

(* the user runs the next command *)
NextCommand ==
    /\ pc[User] = "done"
    /\ nops < MaxOps
    /\ nops' = nops + 1
    /\ pc' = [pc EXCEPT ![User] = "idle"]
    /\ err' = [err EXCEPT ![User] = "none"]
    /\ fnRan' = [fnRan EXCEPT ![User] = FALSE]
    /\ UNCHANGED <<mem, last, idle, call>>
    /\ UNCHANGED <<statePath, tmpPath, backups, holders, now, faults, fn, st,
                   data, startView, serialRenamed, serialReturned, committed,
                   sched, cfg, ctl, hist, wake>>

(* a fresh installation, or one whose state file was damaged *)
OpsFiles == {Missing, Corrupt}

(* the user runs up to MaxOps commands, one after the other, and one check
   of `sili doctor --fix` runs meanwhile *)
InitOps ==
    /\ statePath \in OpsFiles
    /\ tmpPath = Missing
    /\ backups = [t \in Times |-> Missing]
    /\ holders = {}
    /\ now = 0
    /\ faults = 0
    /\ \E op \in DoctorOps :
          /\ call = [NoCall EXCEPT !.op = op,
                       !.pc = IF op = "checkContainerDesync" THEN "live"
                              ELSE "load"]
          /\ pc = [p \in Procs |->
                     IF p = User THEN "idle"
                     ELSE IF p = Caller /\ op = "checkStateConsistency"
                          THEN "read" ELSE "done"]
    /\ fn = [p \in Procs |-> NoFn]
    /\ st = [p \in Procs |-> NewState]
    /\ data = [p \in Procs |-> Missing]
    /\ err = [p \in Procs |-> "none"]
    /\ startView = [p \in Procs |-> NewState]
    /\ fnRan = [p \in Procs |-> FALSE]
    /\ serialRenamed = View(statePath)
    /\ serialReturned = View(statePath)
    /\ committed = {View(statePath)}
    /\ mem = NewState /\ last = NoOp /\ nops = 1 /\ idle = NoEval
    /\ SchedOff

NextOps ==
    \/ WithLockedState(User)
    \/ NextCommand
    \/ checkStateConsistency
    \/ checkContainerDesync

SpecOps == InitOps /\ [][NextOps]_vars

NextSessions == (\E p \in Sessions : WithLockedState(p)) \/ Tick

Next ==
    \/ \E p \in Sessions : WithLockedState(p)
    \/ \E p \in Readers : Load(p)
    \/ Tick

Spec == Init /\ [][Next]_vars

SpecSessions == Init /\ [][NextSessions]_vars

InitPorts == InitFs /\ statePath = Missing /\ InitMem /\ SchedOff

NextPorts ==
    \/ DoReservePort
    \/ DoReleasePorts
    \/ DoUpsertEnv
    \/ DoRemoveEnv
    \/ DoContainerRemove

SpecPorts == InitPorts /\ [][NextPorts]_vars

(* ------------------------------------------------------------------ *)
(* The idle policy applied to every small State                         *)
(* ------------------------------------------------------------------ *)
Thresholds == 0..MaxClock

EnvStatuses == {"running", "stopped"}

EnvRecords ==
    {[name |-> n, status |-> s, persistent |-> b, lastActive |-> t,
      migratedDirs |-> "nil"] :
        n \in EnvNames, s \in EnvStatuses, b \in BOOLEAN, t \in Times}

EnvMaps ==
    {e \in UNION {[D -> EnvRecords] : D \in SUBSET EnvNames} :
        \A n \in DOMAIN e : e[n].name = n}

VMRecords ==
    {NoVM} \cup {[present |-> TRUE, status |-> s, lastActive |-> t,
                   memory |-> UpMemory] :
                    s \in EnvStatuses, t \in Times}

IdleDocs ==
    {[NewState EXCEPT !.vm = v, !.envs = e] : v \in VMRecords, e \in EnvMaps}

InitIdle ==
    /\ InitFs /\ statePath = Missing
    /\ mem \in IdleDocs /\ last = NoOp /\ nops = 0 /\ idle = NoEval
    /\ call = NoCall
    /\ SchedOff

DoGetIdleEnvironments ==
    /\ \E threshold \in Thresholds :
          idle' = [op |-> "GetIdleEnvironments",
                   envs |-> GetIdleEnvironments(mem, now, threshold),
                   vmIdle |-> FALSE, threshold |-> threshold, at |-> now]
    /\ UNCHANGED <<mem, last, nops, call>>
    /\ UNCHANGED fsVars

DoIsVMIdle ==
    /\ \E threshold \in Thresholds :
          idle' = [op |-> "IsVMIdle", envs |-> {},
                   vmIdle |-> IsVMIdle(mem, now, threshold),
                   threshold |-> threshold, at |-> now]
    /\ UNCHANGED <<mem, last, nops, call>>
    /\ UNCHANGED fsVars

NextIdle == DoGetIdleEnvironments \/ DoIsVMIdle \/ Tick

SpecIdle == InitIdle /\ [][NextIdle]_vars

(* the statuses the callers of UpdateVMStatus pass: the two of the data
   model and a lower-cased Lima status *)
VMStatuses == {"running", "stopped", "broken"}

(* s.UpdateVMStatus(status) on the State in memory *)
DoUpdateVMStatus ==
    /\ \E status \in VMStatuses :
          /\ mem' = UpdateVMStatus(mem, status)
          /\ last' = [op |-> "UpdateVMStatus", name |-> status,
                      suggested |-> 0, ret |-> 0, err |-> "nil", prev |-> mem]
    /\ UNCHANGED <<nops, idle, call>>
    /\ UNCHANGED fsVars

(* s.TouchVMActivity() on the State in memory: time.Now() is the clock *)
DoTouchVMActivity ==
    /\ mem' = TouchVMActivity(mem, now)
    /\ last' = [op |-> "TouchVMActivity", name |-> "", suggested |-> 0,
                ret |-> now, err |-> "nil", prev |-> mem]
    /\ UNCHANGED <<nops, idle, call>>
    /\ UNCHANGED fsVars

NextVMOps == DoUpdateVMStatus \/ DoTouchVMActivity \/ Tick

(* the two helpers applied again and again to any small State *)
SpecVMOps == InitIdle /\ [][NextVMOps]_vars

(* ------------------------------------------------------------------ *)
(* Migration applied to every small document                            *)
(* ------------------------------------------------------------------ *)
(* the MigratedDirs of a decoded record: nil when the key was left out,
   an allocated empty map, or a map with entries *)
DirMaps == {"nil", "empty", "set"}

StoredVersions == 1..SchemaVersion

MigrateEnvMaps ==
    {e \in UNION {[D -> [name : EnvNames, status : EnvStatuses,
                         persistent : {FALSE}, lastActive : {0},
                         migratedDirs : DirMaps]] : D \in SUBSET EnvNames} :
        \A n \in DOMAIN e : e[n].name = n}

(* the documents json.Unmarshal can hand to Load's version check *)
MigrateDocs ==
    {[NewState EXCEPT !.schema = v, !.envs = e] :
        v \in StoredVersions, e \in MigrateEnvMaps}

InitMigrate ==
    /\ InitFs /\ statePath = Missing
    /\ mem \in MigrateDocs /\ last = NoOp /\ nops = 0 /\ idle = NoEval
    /\ call = NoCall
    /\ SchedOff

(* migrate(&state, from, SchemaVersion) *)
DoMigrate ==
    /\ \E from \in StoredVersions :
          /\ mem' = migrate(mem, from, SchemaVersion)
          /\ last' = [op |-> "migrate", name |-> "", suggested |-> from,
                      ret |-> SchemaVersion, err |-> "nil", prev |-> mem]
    /\ UNCHANGED <<nops, idle, call>>
    /\ UNCHANGED fsVars

(* the end of Load: "Run migrations if needed" *)
DoLoadMigrate ==
    /\ mem' = Migrated(mem)
    /\ last' = [op |-> "Load", name |-> "", suggested |-> mem.schema,
                ret |-> SchemaVersion, err |-> "nil", prev |-> mem]
    /\ UNCHANGED <<nops, idle, call>>
    /\ UNCHANGED fsVars

NextMigrate == DoMigrate \/ DoLoadMigrate

SpecMigrate == InitMigrate /\ [][NextMigrate]_vars

(* ------------------------------------------------------------------ *)
(* Repeating and reordering the domain operations                       *)
(* ------------------------------------------------------------------ *)
(* s.UpdateEnvStatus(name, status) on the State in memory *)
DoUpdateEnvStatus ==
    /\ nops < MaxOps
    /\ \E name \in EnvNames, status \in EnvStatuses :
          /\ mem' = UpdateEnvStatus(mem, name, status)
          /\ last' = [op |-> "UpdateEnvStatus", name |-> name,
                      suggested |-> 0, ret |-> 0, err |-> "nil", prev |-> mem]
    /\ nops' = nops + 1
    /\ UNCHANGED <<idle, call>>
    /\ UNCHANGED fsVars

(* the operations the callbacks of two sessions may apply: a release of
   the ports of an owner, a removal, and the two status updates *)
DomainOps ==
    {[op |-> o, name |-> n, status |-> ""] :
        o \in {"ReleasePorts", "RemoveEnv"}, n \in EnvNames}
    \cup {[op |-> "UpdateEnvStatus", name |-> n, status |-> st2] :
             n \in EnvNames, st2 \in EnvStatuses}
    \cup {[op |-> "UpdateVMStatus", name |-> "", status |-> st2] :
             st2 \in EnvStatuses}

ApplyOp(o, s) ==
    CASE o.op = "ReleasePorts" -> ReleasePorts(s, o.name)
      [] o.op = "RemoveEnv" -> RemoveEnv(s, o.name)
      [] o.op = "UpdateEnvStatus" -> UpdateEnvStatus(s, o.name, o.status)
      [] o.op = "UpdateVMStatus" -> UpdateVMStatus(s, o.status)

(* the document the next Load returns after a session whose callback
   applied o to the document s it loaded has committed *)
Commit(o, s) == View(Marshal(Stamped(ApplyOp(o, s))))

(* two operations have different targets: not the same operation on the
   same name; the status updates and the port releases *)
DifferentTargets(a, b) ==
    /\ a.op \in {"ReleasePorts", "UpdateEnvStatus", "UpdateVMStatus"}
    /\ b.op \in {"ReleasePorts", "UpdateEnvStatus", "UpdateVMStatus"}
    /\ a.op = b.op => a.name # b.name
    /\ ~(a.op = "UpdateVMStatus" /\ b.op = "UpdateVMStatus")

(* documents with a VM record and up to two environments *)
DomainDocs == {NewState, StoredV2, DocBusy}

InitDomain ==
    /\ InitFs /\ statePath = Missing
    /\ mem \in DomainDocs /\ last = NoOp /\ nops = 0 /\ idle = NoEval
    /\ call = NoCall
    /\ SchedOff

NextDomain ==
    \/ DoReservePort
    \/ DoReleasePorts
    \/ DoRemoveEnv
    \/ DoUpdateEnvStatus
    \/ DoUpdateVMStatus

SpecDomain == InitDomain /\ [][NextDomain]_vars

(* ------------------------------------------------------------------ *)
(* Properties of the sessions                                           *)
(* ------------------------------------------------------------------ *)
InSession(p) ==
    pc[p] \in {"read", "parse", "fn", "write", "write2", "sync", "rename",
               "dirsync", "unlock"}

InSave(p) == pc[p] \in {"write", "write2", "sync", "rename", "dirsync"}

Quiescent == \A p \in Sessions : ~InSession(p)

(* Load returned (state, nil) to p in this step *)
LoadReturnsOk(p) ==
    \/ p \in Sessions /\ pc'[p] = "fn"
    \/ p \in Readers /\ pc'[p] = "done" /\ err'[p] = "nil"

EmptyDocument(s) ==
    /\ s.schema = SchemaVersion
    /\ ~s.vm.present
    /\ DOMAIN s.envs = {}
    /\ DOMAIN s.reserved = {}

(* the state part of C1 *)
C1_Exclusion ==
    /\ Cardinality(holders) <= 1
    /\ \A p, q \in Sessions : (InSession(p) /\ InSession(q)) => p = q
    /\ \A p \in Sessions : InSession(p) => p \in holders
    /\ \A p \in Sessions :
          err[p] = "busy" => pc[p] = "done" /\ ~fnRan[p] /\ p \notin holders

(* the step part of C1: what an attempt does that finds the lock held *)
C1_BusyStep ==
    \A p \in Sessions :
       (pc[p] = "idle" /\ pc'[p] # "idle" /\ holders # {} /\ faults' = faults)
       => /\ pc'[p] = "done" /\ err'[p] = "busy" /\ ~fnRan'[p]
          /\ UNCHANGED <<statePath, tmpPath, backups, holders>>

(* C1: lock exclusion.  At most one process holds the state lock and at
   most one is between acquiring and releasing it; an attempt made while
   the lock is held ends in that very step (it never waits), with the busy
   error, without its callback having run and without touching the state
   file, the temporary file, the backups or the lock. *)
C1_LockExclusion == []C1_Exclusion /\ [][C1_BusyStep]_vars

C1_Witness ==
    \E p, q \in Sessions :
       p # q /\ err[p] = "busy" /\ pc[p] = "done" /\ q \in holders /\ InSave(q)

(* C2 as stated: once no session is in progress, the stored document is the
   result of applying, in order, the callbacks of the sessions that
   returned nil. *)
C2_SerialOfReturned == Quiescent => View(statePath) = serialReturned

(* C2 amended: the stored document always is the result of applying, in
   order, the callbacks of the sessions whose SaveAtomic renamed the
   temporary file over the state file; these are the sessions that returned
   nil and those whose SaveAtomic failed afterwards at the directory sync.
   No partially written document is ever stored. *)
C2_SerialOfRenamed ==
    /\ View(statePath) = serialRenamed
    /\ statePath.kind # "partial"
    /\ (Quiescent /\ \A p \in Sessions : err[p] # "dirsync")
          => View(statePath) = serialReturned

C2_Witness ==
    /\ \A p \in Sessions : pc[p] = "done" /\ err[p] = "nil"
    /\ DOMAIN View(statePath).envs = EnvNames
    /\ \A n \in EnvNames : View(statePath).envs[n].status = "running"
    /\ ~View(statePath).vm.present

(* C3: a session whose callback returns an error returns that error and
   leaves the stored document as it was when the session began, although
   the callback may have changed the State in memory. *)
C3_NoCommitOnFailure ==
    \A p \in Sessions :
       (pc[p] \in {"unlock", "write", "write2", "sync", "rename", "dirsync"}
          /\ fnRan[p] /\ ApplyFn(fn[p], startView[p]).err # "nil")
       => /\ pc[p] = "unlock"
          /\ err[p] = ApplyFn(fn[p], startView[p]).err
          /\ View(statePath) = startView[p]

C3_Witness ==
    \E p \in Sessions :
       /\ pc[p] = "unlock" /\ err[p] = "callback"
       /\ st[p] # startView[p]
       /\ View(statePath) = startView[p]

(* C4: a session that has returned, on whatever path, does not hold the
   lock, and whenever no session is in progress the lock can be acquired. *)
C4_LockReleased ==
    /\ \A p \in Sessions : pc[p] = "done" => p \notin holders
    /\ Quiescent => TryLock(holders)

C4_Witness ==
    \E p, q \in Sessions :
       /\ pc[p] = "done" /\ err[p] = "panic"
       /\ q \in holders /\ pc[q] = "fn"

(* C5: the state path never holds a partially written document, no Load
   ever reads one, and every document an unlocked Load returns is one that
   was completely stored at the state path. *)
C5_NoPartialDocument ==
    /\ statePath.kind # "partial"
    /\ \A p \in Procs : data[p].kind # "partial"
    /\ \A p \in Readers :
          (pc[p] = "done" /\ err[p] = "nil") => st[p] \in committed

C5_Witness ==
    \E p \in Readers, q \in Sessions :
       /\ pc[q] = "write2" /\ tmpPath.kind = "partial"
       /\ pc[p] = "done" /\ err[p] = "nil" /\ st[p] = View(statePath)
       /\ st[p] # st[q]

(* what C6 says of one step of Load *)
C6_LoadStep ==
    \A p \in Procs :
       /\ (pc[p] = "parse" /\ ~Parses(data[p]) /\ statePath = data[p]
             /\ LoadReturnsOk(p))
          => /\ EmptyDocument(st'[p])
             /\ backups'[now] = data[p]
             /\ statePath'.kind = "missing"
       /\ (pc[p] = "read" /\ statePath.kind = "missing" /\ faults' = faults
             /\ pc'[p] # "read")
          => /\ EmptyDocument(st'[p])
             /\ LoadReturnsOk(p)
             /\ UNCHANGED <<statePath, backups>>

(* C6: a Load that finds an unparseable file at the state path and moves
   it aside returns a valid empty document (current schema, no VM, no
   environments, no reservations) and leaves the bytes it found at the
   backup path of the current second; a Load that finds no file returns a
   valid empty document, no error, and creates nothing. *)
C6_CorruptionRecovery == [][C6_LoadStep]_vars

C6_Witness ==
    \E p \in Procs :
       /\ pc[p] \in {"fn", "done"} /\ data[p] = Corrupt
       /\ err[p] \in {"none", "nil"}
       /\ EmptyDocument(st[p])
       /\ \E t \in Times : backups[t] = Corrupt

(* C7 as stated: no Load that read an unparseable file returns an error
   (other than an I/O error injected by the operating system). *)
C7_CorruptionNeverErrors ==
    \A p \in Procs :
       (~Parses(data[p]) /\ data[p].kind # "missing") => err[p] # "backup"

(* ------------------------------------------------------------------ *)
(* Properties of the port registry                                      *)
(* ------------------------------------------------------------------ *)
OtherOwners(s, name) == DOMAIN s.reserved \ {name}

(* C8 as stated: no port appears in the lists of two distinct owners. *)
C8_PortUniqueness ==
    \A a, b \in DOMAIN mem.reserved :
       a # b => PortsOf(mem, a) \cap PortsOf(mem, b) = {}

(* C9 as stated: a ReservePort whose suggestion is already reserved returns
   a different port, at least the previous cursor, advances the cursor,
   appends the port to the owner's list, and the port is held by no other
   owner. *)
C9_FirstFitOrBump ==
    (last.op = "ReservePort" /\ PortTaken(last.prev, last.suggested))
    => /\ last.ret # last.suggested
       /\ last.ret >= last.prev.next
       /\ mem.next > last.prev.next
       /\ last.name \in DOMAIN mem.reserved
       /\ mem.reserved[last.name][Len(mem.reserved[last.name])] = last.ret
       /\ \A o \in OtherOwners(mem, last.name) : last.ret \notin PortsOf(mem, o)

RemovedEnv ==
    last.op = "RemoveEnv" \/ (last.op = "Remove" /\ last.err = "nil")

(* C10 as stated: after RemoveEnv(name), or a successful Remove(name), name
   has no environment record and no reservation entry, no port it held is
   in use any more, and the other owners' reservations are unchanged. *)
C10_RemovalReleasesPorts ==
    RemovedEnv
    => /\ ~HasEnv(mem, last.name)
       /\ last.name \notin DOMAIN mem.reserved
       /\ \A port \in PortsOf(last.prev, last.name) : ~PortTaken(mem, port)
       /\ OtherOwners(mem, last.name) = OtherOwners(last.prev, last.name)
       /\ \A o \in OtherOwners(mem, last.name) :
             mem.reserved[o] = last.prev.reserved[o]

(* What RemoveEnv does guarantee, with or without ports held twice: name's
   record and entry are gone, every other owner's list is unchanged. *)
RemovalReleasesOwnEntry ==
    RemovedEnv
    => /\ ~HasEnv(mem, last.name)
       /\ last.name \notin DOMAIN mem.reserved
       /\ OtherOwners(mem, last.name) = OtherOwners(last.prev, last.name)
       /\ \A o \in OtherOwners(mem, last.name) :
             mem.reserved[o] = last.prev.reserved[o]

(* ------------------------------------------------------------------ *)
(* Properties of the idle policy                                        *)
(* ------------------------------------------------------------------ *)
SomeEnvNotStopped(s) == \E n \in DOMAIN s.envs : s.envs[n].status # "stopped"

(* C11: GetIdleEnvironments(threshold) returns exactly the recorded
   environments that are not persistent, not stopped, and idle for strictly
   longer than the threshold. *)
C11_IdleEnvironmentsExact ==
    idle.op = "GetIdleEnvironments" =>
        \A n \in EnvNames :
            n \in idle.envs <=>
                /\ n \in DOMAIN mem.envs
                /\ mem.envs[n].persistent = FALSE
                /\ mem.envs[n].status # "stopped"
                /\ idle.at - mem.envs[n].lastActive > idle.threshold

(* two running, non-persistent environments: one idle for longer than the
   threshold is returned, one idle for exactly the threshold is not *)
C11_Witness ==
    /\ idle.op = "GetIdleEnvironments"
    /\ idle.envs = {"web"}
    /\ "api" \in DOMAIN mem.envs
    /\ ~mem.envs["api"].persistent
    /\ mem.envs["api"].status = "running"
    /\ idle.at - mem.envs["api"].lastActive = idle.threshold

(* C12: IsVMIdle(threshold) returns true iff there is no VM record, or the
   VM status is stopped, or every recorded environment is stopped (also
   when there is none) and the VM has been idle for strictly longer than
   the threshold. *)
C12_VMIdleExact ==
    idle.op = "IsVMIdle" =>
        (idle.vmIdle <=>
            \/ ~mem.vm.present
            \/ mem.vm.status = "stopped"
            \/ /\ \A n \in DOMAIN mem.envs : mem.envs[n].status = "stopped"
               /\ idle.at - mem.vm.lastActive > idle.threshold)

(* a running VM with no environments, idle for longer than the threshold *)
C12_Witness ==
    /\ idle.op = "IsVMIdle"
    /\ idle.vmIdle
    /\ mem.vm.present /\ mem.vm.status = "running"
    /\ DOMAIN mem.envs = {}

(* C13 as stated: with at least one environment not stopped, IsVMIdle
   never reports idle, whatever the VM record contains. *)
C13_BusyEnvNeverIdle ==
    (idle.op = "IsVMIdle" /\ SomeEnvNotStopped(mem)) => ~idle.vmIdle

(* C13: with at least one environment not stopped and a VM record whose
   status is not stopped, IsVMIdle never reports idle, whatever the age of
   the VM's lastActive. *)
C13_BusyEnvRunningVMNeverIdle ==
    (/\ idle.op = "IsVMIdle"
     /\ SomeEnvNotStopped(mem)
     /\ mem.vm.present
     /\ mem.vm.status # "stopped") => ~idle.vmIdle

(* a running VM idle for longer than the threshold, one environment
   stopped and one running: not idle *)
C13_Witness ==
    /\ idle.op = "IsVMIdle"
    /\ ~idle.vmIdle
    /\ mem.vm.present /\ mem.vm.status = "running"
    /\ idle.at - mem.vm.lastActive > idle.threshold
    /\ DOMAIN mem.envs = EnvNames
    /\ mem.envs["web"].status = "running"
    /\ mem.envs["api"].status = "stopped"

(* ------------------------------------------------------------------ *)
(* Properties of the autosleep agent                                    *)
(* ------------------------------------------------------------------ *)
(* checkAndStopIdle has returned and RunAutosleep waits in the select *)
CycleEnded == sched.pc = "select"

(* container.Stop of the environment at the head of the loop has saved and
   is about to return nil, the lock still held *)
StopSucceeds ==
    sched.pc = "stopping" /\ pc[Stopper] = "unlock" /\ err[Stopper] = "nil"

(* the agent's session runs `podman stop` in this step *)
StopCallStep ==
    /\ sched.pc = "stopping"
    /\ pc[Stopper] = "fn" /\ pc'[Stopper] # "fn"
    /\ CallsPodmanStop(fn'[Stopper], st[Stopper])

(* C14 as stated: every environment evaluated idle by a cycle gets exactly
   one stop call in that cycle. *)
C14_ExactlyOneStopCall ==
    CycleEnded => \A n \in hist.evaluated : hist.stopCalls[n] = 1

(* C14: a cycle issues at most one stop call per environment, only for the
   environments its evaluation found running, non-persistent and idle, and
   exactly one for each of them whose container.Stop did not fail; when
   container.Stop succeeds the stored status is stopped; an environment
   read as stopped by a cycle's evaluation gets no stop call in it. *)
C14_StopOncePerCycle ==
    /\ \A n \in EnvNames :
          /\ hist.stopCalls[n] <= 1
          /\ hist.stopCalls[n] = 1 => n \in hist.evaluated
    /\ \A n \in hist.evaluated :
          /\ HasEnv(st[Evaluator], n)
          /\ ~st[Evaluator].envs[n].persistent
          /\ st[Evaluator].envs[n].status # "stopped"
    /\ CycleEnded =>
          \A n \in hist.evaluated \ hist.failed : hist.stopCalls[n] = 1
    /\ StopSucceeds =>
          /\ HasEnv(View(statePath), Head(sched.idleEnvs))
          /\ View(statePath).envs[Head(sched.idleEnvs)].status = "stopped"

(* the initial cycle stopped both environments; the cycle of the next tick
   has ended without a stop call *)
C14_Witness ==
    /\ CycleEnded /\ sched.cycle = "tick"
    /\ hist.evaluated = {}
    /\ \A n \in EnvNames : hist.stopCalls[n] = 0
    /\ DOMAIN View(statePath).envs = EnvNames
    /\ \A n \in EnvNames : View(statePath).envs[n].status = "stopped"

(* C15: the agent issues no stop call for an environment that is
   persistent in the document its stop session loaded under the lock. *)
C15_StepSparesPersistent ==
    StopCallStep => ~st[Stopper].envs[fn'[Stopper].name].persistent

C15_PersistentNeverStopped == [][C15_StepSparesPersistent]_vars

(* C16: when the agent's stop call is issued, the environment's lastActive
   in the document loaded under the lock is older than
   containerIdleTimeout. *)
C16_StepStopsOnlyIdle ==
    StopCallStep =>
        now - st[Stopper].envs[fn'[Stopper].name].lastActive
            > cfg.containerIdleTimeout

C16_NeverStopsActive == [][C16_StepStopsOnlyIdle]_vars

(* the evaluation of the cycle found every environment stopped and the VM
   running and idle for longer than vmIdleTimeout *)
VMFoundIdle ==
    /\ sched.cycle # "none" /\ err[Evaluator] = "nil"
    /\ st[Evaluator].vm.present
    /\ st[Evaluator].vm.status = "running"
    /\ AllStopped(st[Evaluator])
    /\ hist.evalAt - st[Evaluator].vm.lastActive > cfg.vmIdleTimeout

(* C17: with StopVM enabled, a cycle that finds every environment stopped
   and the VM idle for longer than vmIdleTimeout leaves the stored VM
   status stopped. *)
C17_VMAutoStop ==
    (CycleEnded /\ cfg.stopVM /\ VMFoundIdle) =>
        View(statePath).vm.status = "stopped"

(* C18: when a cycle ends, container.Stop has been called for every
   environment its evaluation found idle, whatever the earlier calls
   returned. *)
C18_AllIdleAttempted == CycleEnded => hist.attempted = hist.evaluated

(* two environments were found idle, container.Stop failed for both, and
   the second was still attempted after the first had failed *)
C18_Witness ==
    /\ CycleEnded
    /\ hist.evaluated = EnvNames
    /\ hist.failed = EnvNames
    /\ hist.attempted = EnvNames

(* a new evaluation cycle begins in this step *)
CycleBegins == sched.pc # "evaluating" /\ sched'.pc = "evaluating"

(* C19: once the context is cancelled or a signal has been delivered, no
   new evaluation cycle begins. *)
C19_StepNoCycleAfterShutdown ==
    CycleBegins => (~ctl.cancelled /\ ~ctl.signalled)

C19_NoCycleAfterShutdown == [][C19_StepNoCycleAfterShutdown]_vars

(* ------------------------------------------------------------------ *)
(* Properties of EnsureVMRunning                                        *)
(* ------------------------------------------------------------------ *)
(* a step of the EnsureVMRunning call *)
WakerStep == wake' # wake \/ pc'[Waker] # pc[Waker]

(* C20: when the State that EnsureVMRunning loaded has no VM record, the
   call returns the "VM not found" error and lima.Up is not invoked; the
   call leaves the files of the state store as they are unless the bytes it
   read could not be parsed. *)
C20_StepNoVM ==
    /\ (wake.pc = "load" /\ wake'.pc # "load"
          /\ err[Waker] = "nil" /\ ~st[Waker].vm.present)
        => (wake'.pc = "done" /\ wake'.ret = "vm_not_found" /\ wake'.ups = 0)
    /\ (WakerStep /\ (pc[Waker] = "parse" => Parses(data[Waker])))
        => UNCHANGED <<statePath, tmpPath, backups>>

C20_NoVMFailsWithoutStart ==
    [](wake.ret = "vm_not_found" => wake.ups = 0) /\ [][C20_StepNoVM]_vars

(* the call has failed with "VM not found" on a stored document that has an
   environment but no VM record *)
C20_Witness ==
    /\ wake.pc = "done" /\ wake.ret = "vm_not_found" /\ wake.ups = 0
    /\ Parses(statePath)
    /\ DOMAIN View(statePath).envs # {}
    /\ ~View(statePath).vm.present

(* the VM record of the stored document *)
StoredVM == View(statePath).vm

(* the stored status was stopped, or it was running and Lima answered
   that the instance is missing or stopped *)
NeedsStart ==
    /\ wake.vm.present
    /\ \/ wake.vm.status # "running"
       \/ wake.live \in {"not_found", "Stopped"}

(* the state part of C21 *)
C21_Returned ==
    wake.pc = "done" =>
        /\ wake.live = "Running" => (wake.ret = "nil" /\ wake.ups = 0)
        /\ NeedsStart => wake.ups = 1
        /\ (wake.ups = 1 /\ wake.ret = "nil")
              => /\ wake.lima = "ok"
                 /\ StoredVM.present /\ StoredVM.status = "running"
        /\ (wake.ups = 1 /\ wake.lima # "ok")
              => /\ wake.ret = "start"
                 /\ StoredVM.status = wake.vm.status

(* the step part of C21 *)
C21_Step ==
    /\ (wake.pc = "query" /\ wake'.live = "Running")
          => UNCHANGED <<statePath, tmpPath, backups>>
    /\ (pc'[Starter] # pc[Starter] /\ StoredVM' # StoredVM)
          => /\ RunningConfirmed(wake.lima)
             /\ StoredVM'.status = "running"

(* C21: EnsureVMRunning ordering.  With the stored status running and Lima
   answering Running, the call returns nil without calling lima.Up and
   without touching the files.  With the stored status stopped, or Lima
   answering that the instance is missing or stopped, lima.Up is called
   once; the stored VM record changes only in a step of lima.Up's session
   taken after Lima confirmed Running, and then to status running; the call
   returns nil only with the VM stored as running; and when lima.Up fails
   before that, the call returns the error and the stored status is the
   one it loaded. *)
C21_WakeOrdering == []C21_Returned /\ [][C21_Step]_vars

(* the stored status was running but Lima reported the instance stopped:
   lima.Up was called and the VM is stored as running again *)
C21_Witness ==
    /\ wake.pc = "done" /\ wake.ret = "nil" /\ wake.ups = 1
    /\ wake.vm.status = "running" /\ wake.live = "Stopped"
    /\ wake.lima = "ok"
    /\ StoredVM.status = "running"

(* C22: after an auto-start through EnsureVMRunning the stored VM record
   has the sizing that was recorded before the call, and lima.Up was
   called with that sizing. *)
C22_RecordedConfigKept ==
    (wake.pc = "done" /\ wake.ups = 1 /\ wake.ret = "nil")
    => /\ StoredVM.memory = wake.vm.memory
       /\ WakeMemory = wake.vm.memory

(* ------------------------------------------------------------------ *)
(* Properties of EnsureContainerRunning, Enter and Run                  *)
(* ------------------------------------------------------------------ *)
EnsureCall == call.op = "EnsureContainerRunning"

(* state.Load() returned a State to the call, which acts on it in this step *)
CallChecks ==
    call.pc = "load" /\ call'.pc # "load" /\ err[Caller] = "nil"

(* a step of the call: of its Load, of its own code, or of the session it
   opens *)
CallStep ==
    call' # call \/ pc'[Caller] # pc[Caller] \/ pc'[Starter] # pc[Starter]

(* the State the call loaded has the environment, with this status *)
LoadedStatus(status) ==
    /\ call.pc \in {"start", "update", "done"}
    /\ err[Caller] = "nil"
    /\ HasEnv(st[Caller], call.name)
    /\ st[Caller].envs[call.name].status = status

C23_Step ==
    EnsureCall =>
      /\ (CallChecks /\ ~HasEnv(st[Caller], call.name))
            => call'.pc = "done" /\ call'.ret = "not_found"
      /\ (CallChecks /\ HasEnv(st[Caller], call.name)
             /\ st[Caller].envs[call.name].status = "running")
            => call'.pc = "done" /\ call'.ret = "nil"
      /\ (CallStep /\ (pc[Caller] = "parse" => Parses(data[Caller])))
            => UNCHANGED <<statePath, tmpPath, backups>>

C23_Returned ==
    (EnsureCall /\ call.ret \in {"not_found", "nil"})
    => /\ call.pc = "done"
       /\ ~call.started
       /\ call.starts = 0
       /\ pc[Starter] = "done" /\ ~fnRan[Starter]

(* C23: EnsureContainerRunning(name) returns the "environment not found"
   error when the State it loaded has no environment of that name and
   (false, nil) when the environment's status is running; in both cases
   startContainer is not called, no session is opened, and the call leaves
   the files of the state store as they are unless the bytes it read could
   not be parsed. *)
C23_NotFoundOrRunning == []C23_Returned /\ [][C23_Step]_vars

(* (false, nil) was returned for an environment stored as running *)
C23_Witness ==
    /\ EnsureCall /\ call.pc = "done" /\ call.ret = "nil" /\ ~call.started
    /\ LoadedStatus("running")
    /\ HasEnv(View(statePath), call.name)
    /\ View(statePath).envs[call.name].status = "running"

C24_Step ==
    (EnsureCall /\ CallStep) =>
      /\ (CallChecks /\ HasEnv(st[Caller], call.name)
             /\ st[Caller].envs[call.name].status = "stopped")
            => call'.pc = "start"
      /\ call.pc \in {"start", "update"}
            => /\ View(statePath') = View(statePath)
               /\ ~call'.started

C24_Returned ==
    (EnsureCall /\ LoadedStatus("stopped"))
    => /\ ~call.started
       /\ call.pc = "done" =>
             (call.ret = "manual_start_required" /\ call.starts = 1)

(* C24: for an environment whose status is stopped in the State it loaded,
   EnsureContainerRunning returns the error of startContainer that names
   the manual recovery, never returns started = true, and none of its
   steps changes the stored document: the environment's status and
   lastActive and the VM's lastActive stay as they are. *)
C24_StoppedIsRefused == []C24_Returned /\ [][C24_Step]_vars

(* the call was refused a second after the environment was last active,
   and the stored record is as it was *)
C24_Witness ==
    /\ EnsureCall /\ call.pc = "done" /\ call.ret = "manual_start_required"
    /\ LoadedStatus("stopped")
    /\ now = 1
    /\ View(statePath) = DocQuiet

(* the documents a state holds as persisted: the one stored at statePath
   and every one a session has committed *)
Persisted == {View(statePath)} \cup committed

NoEnvRunning(s) == \A n \in DOMAIN s.envs : s.envs[n].status # "running"

(* C25: in every persisted document reachable through vm up, vm stop,
   create, stop, rm and doctor --fix, a document without a VM record has
   no environment whose status is running. *)
C25_NoVMNoRunningEnv ==
    \A s \in Persisted : ~s.vm.present => NoEnvRunning(s)

(* C25 witness: `sili create` was refused while the stored document had no
   VM record. *)
C25_Witness ==
    /\ fn[User].kind = "create"
    /\ pc[User] = "unlock" /\ err[User] = "vm_not_running"
    /\ ~View(statePath).vm.present

StatusDomain == {"running", "stopped"}

(* C26: in every persisted document the status of the VM record and of
   every environment is running or stopped. *)
C26_StatusDomain ==
    \A s \in Persisted :
        /\ s.vm.present => s.vm.status \in StatusDomain
        /\ \A n \in DOMAIN s.envs : s.envs[n].status \in StatusDomain

(* C27: once the stored document contains a VM record, the document stored
   after any step contains one too. *)
C27_VMRecordKept ==
    [][View(statePath).vm.present => View(statePath').vm.present]_vars

(* Load has just returned a State decoded from the bytes p read *)
ReturnedByLoad(p) ==
    /\ Parses(data[p])
    /\ IF p \in Sessions THEN pc[p] = "fn"
       ELSE pc[p] = "done" /\ err[p] = "nil"

(* the State p holds carries the current version, and one returned by Load
   from a document stored with an older version has the map of migrated
   directories of every environment allocated *)
C28_Loaded ==
    \A p \in Procs :
        /\ st[p].schema = SchemaVersion
        /\ (ReturnedByLoad(p) /\ data[p].doc.schema < SchemaVersion)
              => \A n \in DOMAIN st[p].envs :
                     st[p].envs[n].migratedDirs # "nil"

(* a step never lowers the version stored in state.json, and a step that
   stores another document stores one with the current version *)
C28_Step ==
    /\ (Parses(statePath) /\ Parses(statePath'))
          => statePath'.doc.schema >= statePath.doc.schema
    /\ (Parses(statePath') /\ statePath' # statePath)
          => statePath'.doc.schema = SchemaVersion

(* C28: the persisted schemaVersion never decreases; a document that Load
   returns from a file stored with an older version has been migrated and
   carries the current version; every commit persists the current
   version. *)
C28_SchemaMonotonic == []C28_Loaded /\ [][C28_Step]_vars

(* C28 witness: a session loaded the version-1 document and its commit
   replaced it by a document of the current version. *)
C28_Witness ==
    \E p \in Sessions :
        /\ Parses(data[p]) /\ data[p].doc.schema < SchemaVersion
        /\ pc[p] = "dirsync"
        /\ Parses(statePath) /\ statePath.doc.schema = SchemaVersion
        /\ st[p].schema = SchemaVersion

(* the fields of the document outside the VM record *)
OutsideVM(s) == [schema |-> s.schema, next |-> s.next,
                 reserved |-> s.reserved, envs |-> s.envs]

(* C29: UpdateVMStatus and TouchVMActivity return no error; without a VM
   record they leave the whole document as it was and create no record;
   with one, UpdateVMStatus changes the status of the record and nothing
   else, TouchVMActivity the lastActive of the record and nothing else. *)
C29_VMHelpers ==
    last.op \in {"UpdateVMStatus", "TouchVMActivity"} =>
      /\ last.err = "nil"
      /\ OutsideVM(mem) = OutsideVM(last.prev)
      /\ mem.vm.present = last.prev.vm.present
      /\ mem.vm.memory = last.prev.vm.memory
      /\ ~last.prev.vm.present => mem = last.prev
      /\ (last.prev.vm.present /\ last.op = "UpdateVMStatus")
            => /\ mem.vm.status = last.name
               /\ mem.vm.lastActive = last.prev.vm.lastActive
      /\ (last.prev.vm.present /\ last.op = "TouchVMActivity")
            => /\ mem.vm.lastActive = last.ret
               /\ mem.vm.status = last.prev.vm.status

(* C29 witness: UpdateVMStatus was called on a State that has an
   environment and no VM record. *)
C29_Witness ==
    /\ last.op = "UpdateVMStatus"
    /\ ~last.prev.vm.present
    /\ DOMAIN last.prev.envs # {}

(* Enter or Run has run the shell or the command in the environment *)
Accessed == call.op \in {"Enter", "Run"} /\ call.accessed

(* C30: after an enter or run access to an environment, the stored
   lastActive of that environment is not older than the access, and the
   environment is not classified idle for any timeout that has not
   elapsed since the access. *)
C30_AccessIsActivity ==
    Accessed =>
      LET s == View(statePath)
      IN /\ HasEnv(s, call.name) => s.envs[call.name].lastActive >= call.at
         /\ \A threshold \in Thresholds :
               now - call.at <= threshold
                  => call.name \notin GetIdleEnvironments(s, now, threshold)

(* C31: RemoveEnv(name) applied to a State that records no environment
   named name leaves the whole State as it was, the reservation list keyed
   by name included. *)
C31_RemoveAbsentIsNoOp ==
    (last.op = "RemoveEnv" /\ ~HasEnv(last.prev, last.name))
        => mem = last.prev

(* C32: on every State, applying ReleasePorts, RemoveEnv, UpdateEnvStatus
   or UpdateVMStatus twice gives the State that applying it once gives;
   and two sessions that apply status updates or port releases to
   different targets leave the same document in either commit order. *)
C32_IdempotentConvergent ==
    /\ \A o \in DomainOps : ApplyOp(o, ApplyOp(o, mem)) = ApplyOp(o, mem)
    /\ \A a, b \in DomainOps :
          DifferentTargets(a, b)
             => Commit(a, Commit(b, mem)) = Commit(b, Commit(a, mem))

(* C32 witness: a release has just taken two ports from an owner, in a
   State with a VM record and both environments. *)
C32_Witness ==
    /\ last.op = "ReleasePorts"
    /\ last.name \in DOMAIN last.prev.reserved
    /\ Len(last.prev.reserved[last.name]) > 1
    /\ mem.vm.present /\ DOMAIN mem.envs = EnvNames

(* the callback f, run on the State s, calls limactl or podman: lima.Up and
   lima.Stop always; Stop and Remove for a recorded environment; Create
   once the VM check has passed *)
MakesExternalCall(f, s) ==
    \/ f.kind \in {"up", "wake", "vmstop"}
    \/ f.kind \in {"stop", "remove"} /\ HasEnv(s, f.name)
    \/ f.kind = "create" /\ s.vm.present /\ s.vm.status = "running"

(* C33: a process whose callback calls the VM Supervisor or the Container
   Runtime does not hold the state lock while the call is made. *)
C33_ExternalCallsUnlocked ==
    [][\A p \in Sessions :
          (pc[p] = "fn" /\ pc'[p] # "fn" /\ MakesExternalCall(fn'[p], st[p]))
             => p \notin holders]_vars

(* the stored document records n as running, not persistent and idle for
   longer than containerIdleTimeout *)
IdleRunning(n) ==
    LET s == View(statePath)
    IN /\ HasEnv(s, n)
       /\ s.envs[n].status = "running"
       /\ ~s.envs[n].persistent
       /\ IdleDuration(now, s.envs[n].lastActive) > cfg.containerIdleTimeout

(* the agent's last container.Stop found the lock held or `podman stop`
   failed *)
StopHindered == err[Stopper] \in {"busy", "podman"}

(* C34: with the agent running and its ticker firing, if from some time on
   no stop of the agent is refused by the lock or fails in the Container
   Runtime, then no environment stays recorded as running, non-persistent
   and idle beyond containerIdleTimeout for ever: its stored status
   becomes stopped. *)
C34_IdleEventuallyStopped ==
    \A n \in EnvNames : (<>[]~StopHindered) => []<>~IdleRunning(n)

(* C34 witness: in a cycle started by a tick the agent's stop of an
   environment that was idle has returned nil and the stored status is
   stopped. *)
C34_Witness ==
    /\ sched.pc = "stopping" /\ sched.cycle = "tick"
    /\ pc[Stopper] = "done" /\ err[Stopper] = "nil"
    /\ HasEnv(View(statePath), Head(sched.idleEnvs))
    /\ View(statePath).envs[Head(sched.idleEnvs)].status = "stopped"
    /\ now > cfg.containerIdleTimeout

(* the document after is the document before except for the schema and
   the maps of migrated directories; maps that were allocated are kept *)
OnlyDirsAllocated(before, after) ==
    /\ [after EXCEPT !.schema = 0, !.envs = EmptyMap]
         = [before EXCEPT !.schema = 0, !.envs = EmptyMap]
    /\ DOMAIN after.envs = DOMAIN before.envs
    /\ \A n \in DOMAIN before.envs :
          /\ [after.envs[n] EXCEPT !.migratedDirs = "nil"]
               = [before.envs[n] EXCEPT !.migratedDirs = "nil"]
          /\ before.envs[n].migratedDirs # "nil"
               => after.envs[n].migratedDirs = before.envs[n].migratedDirs

(* C35: migrate from version 1 to 2 leaves every environment with a
   non-nil migratedDirs and the schema at the target version, changing
   nothing else; migrate applied to the migrated document changes nothing;
   Load leaves a document stored with the current version as it is. *)
C35_MigrationTotalIdempotent ==
    /\ (last.op = "migrate" /\ last.suggested < 2) =>
          /\ mem.schema = last.ret
          /\ \A n \in DOMAIN mem.envs : mem.envs[n].migratedDirs # "nil"
          /\ OnlyDirsAllocated(last.prev, mem)
          /\ \A from \in StoredVersions :
                migrate(mem, from, SchemaVersion) = mem
    /\ (last.op = "Load" /\ last.prev.schema = SchemaVersion) =>
          mem = last.prev
    /\ (last.op = "Load" /\ last.prev.schema < SchemaVersion) =>
          mem = migrate(last.prev, last.prev.schema, SchemaVersion)

(* C35 witness: migrate was applied to a version-1 document with an
   environment without the map and one with entries. *)
C35_Witness ==
    /\ last.op = "migrate" /\ last.suggested = 1
    /\ last.prev.schema = 1
    /\ \E n, m \in DOMAIN last.prev.envs :
          /\ last.prev.envs[n].migratedDirs = "nil"
          /\ last.prev.envs[m].migratedDirs = "set"

(* ReservePort was called with a port that no owner held *)
ReservedFreePort ==
    last.op = "ReservePort" /\ ~PortTaken(last.prev, last.suggested)

C36_FreeSuggestionKept ==
    ReservedFreePort =>
      LET old == IF last.name \in DOMAIN last.prev.reserved
                 THEN last.prev.reserved[last.name] ELSE <<>>
      IN /\ last.ret = last.suggested
         /\ mem.reserved[last.name] = Append(old, last.suggested)
         /\ mem.next = last.prev.next
         /\ DOMAIN mem.reserved = DOMAIN last.prev.reserved \cup {last.name}
         /\ \A o \in DOMAIN last.prev.reserved \ {last.name} :
               mem.reserved[o] = last.prev.reserved[o]
         /\ [mem EXCEPT !.reserved = EmptyMap]
              = [last.prev EXCEPT !.reserved = EmptyMap]

(* C36: ReservePort with a suggestion that no owner holds returns the
   suggestion, appends it to the owner's list and changes neither
   NextEphemeral nor another owner's list; and no operation ever lowers
   NextEphemeral. *)
C36_CursorMonotonic ==
    []C36_FreeSuggestionKept /\ [][mem'.next >= mem.next]_vars

(* C36 witness: after the cursor has advanced, a free port was reserved
   for an owner while another owner holds ports. *)
C36_Witness ==
    /\ ReservedFreePort
    /\ last.prev.next > FirstEphemeral
    /\ DOMAIN last.prev.reserved \ {last.name} # {}

(* the callback of container.Stop returns in this step of p *)
StopCallbackReturns(p) ==
    pc[p] = "fn" /\ pc'[p] # "fn" /\ fn'[p].kind = "stop"

(* `podman stop` succeeded or said "no such container" *)
StopAccepted(f) == f.podman \in {"ok", "no_such_container"}

(* the callback: not recorded, or a failure of podman, is an error that
   leaves the State alone and skips the save; otherwise the status becomes
   stopped and the State is saved *)
C37_Callback ==
    \A p \in Sessions :
        StopCallbackReturns(p) =>
            IF HasEnv(st[p], fn'[p].name) /\ StopAccepted(fn'[p])
            THEN /\ st'[p].envs[fn'[p].name].status = "stopped"
                 /\ pc'[p] = "write"
            ELSE /\ err'[p] \in {"not_found", "podman"}
                 /\ st'[p] = st[p]
                 /\ pc'[p] = "unlock"
                 /\ HasEnv(st[p], fn'[p].name) => fn'[p].podman = "failed"

(* a session of container.Stop whose callback failed holds the lock with
   the stored document as it found it *)
C37_Unchanged ==
    \A p \in Sessions :
        (fn[p].kind = "stop" /\ err[p] \in {"not_found", "podman"}
            /\ p \in holders)
           => /\ pc[p] = "unlock"
              /\ View(statePath) = startView[p]

(* C37: container.Stop stores status stopped only when the environment is
   recorded and `podman stop` succeeded or reported no such container;
   otherwise the session returns an error and the persisted document is
   unchanged. *)
C37_StopOnlyOnSuccess == []C37_Unchanged /\ [][C37_Callback]_vars

(* C37 witness: `podman stop` failed for a recorded environment; the
   session is about to unlock and the stored status is still running. *)
C37_Witness ==
    /\ fn[Stopper].kind = "stop" /\ fn[Stopper].podman = "failed"
    /\ pc[Stopper] = "unlock" /\ err[Stopper] = "podman"
    /\ HasEnv(View(statePath), fn[Stopper].name)
    /\ View(statePath).envs[fn[Stopper].name].status = "running"

(* C38: a document that parses is never renamed away from state.json: the
   corruption recovery of a reader never removes what a session has
   committed. *)
C38_CommittedNotQuarantined ==
    [][Parses(statePath) => Parses(statePath')]_vars

(* the agent's container.Stop renames its document into place *)
StopCommits ==
    /\ pc[Stopper] = "rename" /\ pc'[Stopper] = "dirsync"
    /\ fn[Stopper].kind = "stop"

(* after differs from before in the status of n and in the VM's
   lastActive, and nowhere else *)
OnlyStopped(before, after, n) ==
    /\ DOMAIN after.envs = DOMAIN before.envs
    /\ \A m \in DOMAIN before.envs \ {n} : after.envs[m] = before.envs[m]
    /\ n \in DOMAIN before.envs
    /\ [after.envs[n] EXCEPT !.status = ""]
         = [before.envs[n] EXCEPT !.status = ""]
    /\ after.envs[n].status = "stopped"
    /\ [after.vm EXCEPT !.lastActive = 0] = [before.vm EXCEPT !.lastActive = 0]
    /\ after.reserved = before.reserved
    /\ after.next = before.next
    /\ after.schema = before.schema

(* C39: the document the agent's stop commits is the document stored when
   it commits, with every commit of CLI sessions since the agent's
   evaluation in it, changed only in the target's status and the VM's
   lastActive. *)
C39_StopKeepsCommits ==
    [][StopCommits
         => OnlyStopped(View(statePath), View(statePath'), fn[Stopper].name)]_vars

(* C39 witness: the agent's stop has committed on top of a document that a
   CLI session changed after the agent's evaluation read. *)
C39_Witness ==
    /\ pc[Stopper] = "dirsync" /\ fn[Stopper].kind = "stop"
    /\ startView[Stopper] # st[Evaluator]
    /\ View(statePath) # startView[Stopper]

(* the agent's stop of an environment that is not recorded returns
   not found without a `podman stop` and without touching the State *)
C40_Callback ==
    (StopCallbackReturns(Stopper) /\ ~HasEnv(st[Stopper], fn'[Stopper].name))
        => /\ err'[Stopper] = "not_found"
           /\ hist'.stopCalls = hist.stopCalls
           /\ st'[Stopper] = st[Stopper]

(* while that session holds the lock the stored document has neither the
   environment nor ports of it *)
C40_NotRecreated ==
    (fn[Stopper].kind = "stop" /\ err[Stopper] = "not_found"
        /\ Stopper \in holders)
       => /\ ~HasEnv(View(statePath), fn[Stopper].name)
          /\ fn[Stopper].name \notin DOMAIN View(statePath).reserved

(* C40: an environment removed by a CLI session after the agent evaluated
   it as idle and before the agent's stop got the lock is not stopped in
   the Container Runtime and is not re-created in the stored document:
   the stop fails with not found. *)
C40_NoResurrection == []C40_NotRecreated /\ [][C40_Callback]_vars

(* C40 witness: the agent's stop failed with not found for an environment
   that its evaluation had found idle. *)
C40_Witness ==
    /\ fn[Stopper].kind = "stop" /\ err[Stopper] = "not_found"
    /\ pc[Stopper] = "unlock"
    /\ fn[Stopper].name \in hist.evaluated
    /\ HasEnv(st[Evaluator], fn[Stopper].name)
    /\ ~HasEnv(View(statePath), fn[Stopper].name)

====
